---- MODULE Spec2Model ----
(***************************************************************************)
(* Iron Fog game server (src/server/server.py): the GameState simulation   *)
(* core, its command handlers and the game loop that ticks it.             *)
(*                                                                         *)
(* Fixed-point units (the program uses Python floats):                     *)
(*   time      : milliseconds            (5.0 s    = 5000)                 *)
(*   position  : 1/1000 hex              (q = 0.25 = 250)                  *)
(*   resources : 1/10000 of a unit       (80.0     = 800000)               *)
(*   move speed: 1/10 hex per second     (2.5      = 25)                   *)
(* hp, damage, score and the counters are integers as in the program.      *)
(* Tank.facing (presentation only, an atan2) is not modelled.              *)
(***************************************************************************)
EXTENDS Integers, Sequences, FiniteSets, TLC

\* ------------------------------------------------------------------------
\* Bounds of the model
\* ------------------------------------------------------------------------
MaxIter == 3        \* iterations of game_loop after the opening
MaxMsgs == 2        \* client messages and disconnects handled after the opening
MaxPid == 4         \* player ids handed out by add_player in one run

\* ------------------------------------------------------------------------
\* Program constants (server.py 27-54), in the units above
\* ------------------------------------------------------------------------
MAP_RADIUS == 8
FOG_RANGE == 3
CAPTURE_TIME == 5000
MAX_PLAYERS == 4
FUEL_PER_HEX == 40000
AMMO_SHOOT == 80000
SHELL_SPEED == 25
SHELL_DAMAGE == 40
FORT_FUEL_GEN == 12
FORT_AMMO_GEN == 9
FORT_GEAR_GEN == 1
MOVE_SPEED_BASE == 25
LOOT_FUEL_FLOOR == 150000
LOOT_AMMO_FLOOR == 100000
LOOT_GEAR_FLOOR == 0
FORT_RELEASE_KEEP == 2
TANK_MAX_HP == 100
RESPAWN_TIME == 8000
FIRE_COOLDOWN == 800
MATCH_TIME == 600000
POST_MATCH_TIME == 10000
UPGRADE_MAX_LVL == 3
START_FUEL == 800000
START_AMMO == 500000
FUEL_CAP == 1200000
AMMO_CAP == 1000000
GEAR_CAP == 990000
MAX_DT == 100
SHELL_MAX_AGE == 3000
BASE_RANGE == 5
ENGINE_STEP == 4
ARMOR_STEP == 20
CANNON_STEP == 10
CANNON_SHELL_BONUS == 5
LOADER_STEP == 20000
LOADER_FLOOR == 20000
KILL_SCORE == 10
CAPTURE_SCORE == 5
GEAR_GAIN_MIN == 50000
NUM_COLORS == 4
NumForts == 12

PosScale == 1000 * 1
ResScale == 10000 * 1

\* Optional[str] = None for player references
None == 0

UpgradeTypes == {"engine", "armor", "cannon", "sensor", "loader"}
LvlCosts == <<5 * ResScale, 10 * ResScale, 18 * ResScale>>
Starts == << <<0, 4>>, <<-4, 0>>, <<0, -4>>, <<4, -4>>, <<4, 0>>, <<-4, 4>> >>

\* ------------------------------------------------------------------------
\* Arithmetic helpers
\* ------------------------------------------------------------------------
Abs(x) == IF x < 0 THEN -x ELSE x
Min(a, b) == IF a < b THEN a ELSE b
Max(a, b) == IF a > b THEN a ELSE b
Sgn(x) == IF x < 0 THEN -1 ELSE IF x > 0 THEN 1 ELSE 0

\* statement sequencing: x is computed in full, then y
Then(x, y) == IF x = x THEN y ELSE y

\* floor of the square root, by bisection on [lo, hi]
RECURSIVE SqrtBetween(_, _, _)
SqrtBetween(n, lo, hi) ==
    IF lo >= hi THEN lo
    ELSE LET mid == (lo + hi + 1) \div 2
         IN IF mid * mid <= n THEN SqrtBetween(n, mid, hi)
                              ELSE SqrtBetween(n, lo, mid - 1)
ISqrt(n) == SqrtBetween(n, 0, 40000)

\* Python round() of a float given in 1/1000: nearest integer, ties to even
Round(x) ==
    LET f == x \div PosScale
        rem == x - f * PosScale
    IN IF 2 * rem < PosScale THEN f
       ELSE IF 2 * rem > PosScale THEN f + 1
       ELSE IF f % 2 = 0 THEN f ELSE f + 1

\* ------------------------------------------------------------------------
\* Hex math
\* ------------------------------------------------------------------------
hex_distance(a, b) ==
    (Abs(a[1] - b[1]) + Abs(a[1] + a[2] - b[1] - b[2]) + Abs(a[2] - b[2])) \div 2

\* the rounded cell of an object with float coordinates q, r
Cell(o) == <<Round(o.q), Round(o.r)>>

\* variant whose inner loop runs over range(-radius, radius+1)
HexColumnSquare(center, radius, dq) ==
    [i \in 1 .. 2 * radius + 1 |-> <<center[1] + dq, center[2] - radius + i - 1>>]

\* hex_range, the inner loop: the cells of column dq, dr ascending
HexColumn(center, radius, dq) ==
    LET lo == Max(-radius, -dq - radius)
        hi == Min(radius, -dq + radius)
    IN [i \in 1 .. hi - lo + 1 |-> <<center[1] + dq, center[2] + lo + i - 1>>]

\* hex_range, the outer loop from column dq on
RECURSIVE HexColumns(_, _, _)
HexColumns(center, radius, dq) ==
    IF dq > radius THEN <<>>
    ELSE HexColumn(center, radius, dq) \o HexColumns(center, radius, dq + 1)

\* hex_range(center, radius): the list of cells, in the order of the loops
hex_range(center, radius) == HexColumns(center, radius, -radius)

\* ------------------------------------------------------------------------
\* Game objects
\* ------------------------------------------------------------------------
Forts == 0 .. NumForts - 1

\* _generate_forts: the resource type of fort_i is fixed by its index
FortType(i) ==
    IF i < 4 THEN "fuel" ELSE IF i < 8 THEN "ammo" ELSE IF i < 10 THEN "gear" ELSE "mixed"

\* _generate_forts: one outcome of random.shuffle over the cells at hex distance
\* >= 3 from the centre (fort_0, fort_4 and fort_10 lie on spawn slots; fort_1,
\* fort_8 and fort_11 next to one)
FortCell ==
    << <<0, 4>>, <<0, 5>>, <<8, 0>>, <<0, 8>>,
       <<-4, 0>>, <<-8, 8>>, <<-8, 0>>, <<0, -8>>,
       <<-3, 0>>, <<7, 0>>,
       <<0, -4>>, <<-5, 0>> >>
FortQ(i) == FortCell[i + 1][1]
FortR(i) == FortCell[i + 1][2]

\* Fort(id, q, r, ftype): the mutable fields of a fresh fort
NewFort ==
    [owner |-> None, capture_progress |-> 0, capturing_player |-> None, was_owned |-> FALSE]

NoUpgrades == [u \in UpgradeTypes |-> 0]

\* Tank(id, player_id, q, r, color) with the dataclass defaults
NewTank(sq, sr, color) ==
    [q |-> sq * PosScale, r |-> sr * PosScale, target |-> <<>>, path |-> <<>>,
     hp |-> TANK_MAX_HP, max_hp |-> TANK_MAX_HP,
     fuel |-> START_FUEL, ammo |-> START_AMMO, gears |-> 0,
     move_speed |-> MOVE_SPEED_BASE, vision |-> FOG_RANGE,
     shell_damage |-> SHELL_DAMAGE, ammo_cost |-> AMMO_SHOOT,
     alive |-> TRUE, respawn_timer |-> 0, color |-> color,
     upgrades |-> NoUpgrades, last_shot |-> 0,
     score |-> 0, kills |-> 0, deaths |-> 0, fort_captures |-> 0]

\* ------------------------------------------------------------------------
\* State
\* ------------------------------------------------------------------------
VARIABLES
    players,            \* GameState.players: ws_id -> [id, color]
    tanks,              \* GameState.tanks: player_id -> Tank
    forts,              \* GameState.forts: fort index -> Fort
    shells,             \* GameState.shells, in insertion order
    match_timer,        \* GameState.match_timer
    match_over,         \* GameState.match_over
    post_match_timer,   \* GameState.post_match_timer
    rematch_votes,      \* GameState.rematch_votes
    pending_events,     \* GameState.pending_events
    tick,               \* GameState.tick
    now,                \* the wall clock, time.time()
    nextPid,            \* the next fresh player id (uuid4 in the program)
    ret,                \* the result returned by the last handler
    view,               \* history: what the capture phase of the last tick saw
    streak,             \* history: per fort, the lone occupation under way
    volley,             \* history: per tank, the shots since its ammo last changed otherwise
    loop_pc,            \* where game_loop stands: "tick" (line 810), "drain" (line 814)
                        \*   or, when the tick is followed phase by phase, the phase to run
    feed,               \* the drain loop of game_loop: its position in pending_events,
                        \*   and history: the events the tick queued and those broadcast
    cur,                \* the tick under way when it is followed phase by phase
    probe,              \* arguments and results of the hex functions called on their own
    iter,               \* iterations of game_loop since the opening
    msgs,               \* messages and disconnects handled since the opening
    seg,                \* the segment of the scripted opening being played, 0 after it
    done                \* repetitions of that segment already played

vars == <<players, tanks, forts, shells, match_timer, match_over,
          post_match_timer, rematch_votes, pending_events, tick,
          now, nextPid, ret, view, streak, volley, loop_pc, feed, cur, probe,
          iter, msgs, seg, done>>

\* the simulation state proper
game == <<players, tanks, forts, shells, match_timer, match_over,
          post_match_timer, rematch_votes, pending_events, tick>>

Pids == DOMAIN tanks

\* The handlers are written as functions from world to world; a world is the
\* record of the program's state
World ==
    [players |-> players, tanks |-> tanks, forts |-> forts, shells |-> shells,
     match_timer |-> match_timer, match_over |-> match_over,
     post |-> post_match_timer, votes |-> rematch_votes, events |-> pending_events,
     tick |-> tick, now |-> now, nextPid |-> nextPid, ret |-> ret,
     view |-> view, streak |-> streak]

\* History of a tank's fire: ammo0 is its ammo when the ammo last changed
\* otherwise than by a shot of its own (or its per-shot cost changed), hits the
\* shots accepted since.
NewVolley(t) == [ammo0 |-> t.ammo, hits |-> 0]

VolleyStep(v, before, w) ==
    [p \in DOMAIN w.tanks |->
       IF p \notin DOMAIN before \/ p \notin DOMAIN v THEN NewVolley(w.tanks[p])
       ELSE IF w.tanks[p].ammo_cost # before[p].ammo_cost THEN NewVolley(w.tanks[p])
       ELSE IF w.ret = [op |-> "shoot", who |-> p, res |-> "ok"]
            THEN [v[p] EXCEPT !.hits = v[p].hits + 1]
       ELSE IF w.tanks[p].ammo = before[p].ammo THEN v[p]
       ELSE NewVolley(w.tanks[p])]

\* the variables take the values of world w
Commit(w) ==
    /\ players' = w.players
    /\ tanks' = w.tanks
    /\ forts' = w.forts
    /\ shells' = w.shells
    /\ match_timer' = w.match_timer
    /\ match_over' = w.match_over
    /\ post_match_timer' = w.post
    /\ rematch_votes' = w.votes
    /\ pending_events' = w.events
    /\ tick' = w.tick
    /\ now' = w.now
    /\ nextPid' = w.nextPid
    /\ ret' = w.ret
    /\ view' = w.view
    /\ streak' = w.streak
    /\ volley' = VolleyStep(volley, tanks, w)

IsWorld(w) ==
    /\ players = w.players
    /\ tanks = w.tanks
    /\ forts = w.forts
    /\ shells = w.shells
    /\ match_timer = w.match_timer
    /\ match_over = w.match_over
    /\ post_match_timer = w.post
    /\ rematch_votes = w.votes
    /\ pending_events = w.events
    /\ tick = w.tick
    /\ now = w.now
    /\ nextPid = w.nextPid
    /\ ret = w.ret
    /\ view = w.view
    /\ streak = w.streak

Ret(op, who, res) == [op |-> op, who |-> who, res |-> res]

\* History of the capture contest, kept beside the program's state.
\* view: whether the last loop iteration ran the active phases, its dt, and the
\*   living tanks its capture phase found on each fort's cell.
\* streak: for a fort that was never owned and uncontested when a lone living
\*   tank was found on it, and has been found with that tank alone on every
\*   active tick since: the tank's player, the summed dt of those ticks, the dt
\*   of the first of them, and the player's counters when the first began.
NoView == [active |-> FALSE, dt |-> 0, on |-> [f \in Forts |-> {}]]
NoStreak == [pid |-> None, sum |-> 0, first |-> 0, score0 |-> 0, caps0 |-> 0, kills0 |-> 0]

\* the epoch clock is far past the first cooldown when the server starts
StartTime == 10 * FIRE_COOLDOWN

\* GameState.__init__ (with the module-level game = GameState())
NewGame ==
    [players |-> [c \in {} |-> 0], tanks |-> [p \in {} |-> 0],
     forts |-> [f \in Forts |-> NewFort], shells |-> <<>>,
     match_timer |-> MATCH_TIME, match_over |-> FALSE, post |-> 0,
     votes |-> {}, events |-> <<>>, tick |-> 0,
     now |-> StartTime, nextPid |-> 1, ret |-> Ret("init", None, "ok"),
     view |-> NoView, streak |-> [f \in Forts |-> NoStreak]]

\* ------------------------------------------------------------------------
\* GameState.add_player / handle_message "join"
\* ------------------------------------------------------------------------
add_player(w, ws) ==
    IF Cardinality(DOMAIN w.players) >= MAX_PLAYERS
    THEN [w EXCEPT !.ret = Ret("join", None, "Game full")]
    ELSE LET n == Cardinality(DOMAIN w.players)
             color == n % NUM_COLORS
             start == Starts[(n % Len(Starts)) + 1]
             pid == w.nextPid
         IN [w EXCEPT
               !.players = [c \in DOMAIN w.players \cup {ws} |->
                              IF c = ws THEN [id |-> pid, color |-> color]
                                        ELSE w.players[c]],
               !.tanks = [p \in DOMAIN w.tanks \cup {pid} |->
                            IF p = pid THEN NewTank(start[1], start[2], color)
                                       ELSE w.tanks[p]],
               !.nextPid = pid + 1,
               !.ret = Ret("join", pid, "ok")]

\* ------------------------------------------------------------------------
\* GameState.remove_player / handle_disconnect
\* ------------------------------------------------------------------------
\* variant that releases the forts pid owns and leaves its contests standing
ReleaseOnLeaveOwnedOnly(f, pid) ==
    IF f.owner = pid
    THEN [f EXCEPT !.owner = None, !.capture_progress = 0]
    ELSE f

\* lines 314-320: the loop body of the fort release
ReleaseOnLeave(f, pid) ==
    LET a == IF f.owner = pid
             THEN [f EXCEPT !.owner = None, !.capture_progress = 0]
             ELSE f
    IN IF a.capturing_player = pid
       THEN [a EXCEPT !.capturing_player = None, !.capture_progress = 0]
       ELSE a

remove_player(w, ws) ==
    IF ws \in DOMAIN w.players
    THEN LET pid == w.players[ws].id
         IN [w EXCEPT
               !.players = [c \in DOMAIN w.players \ {ws} |-> w.players[c]],
               !.tanks = [p \in DOMAIN w.tanks \ {pid} |-> w.tanks[p]],
               !.forts = [f \in Forts |-> ReleaseOnLeave(w.forts[f], pid)],
               !.ret = Ret("disconnect", pid, "ok")]
    ELSE [w EXCEPT !.ret = Ret("disconnect", None, "ok")]

\* ------------------------------------------------------------------------
\* GameState.set_tank_path / handle_message "move"
\* ------------------------------------------------------------------------
\* variant that lets the commands through for a dead tank
NotAvailableMissing(w, pid) == pid \notin DOMAIN w.tanks

\* line 324: the tank is missing or dead
NotAvailable(w, pid) == pid \notin DOMAIN w.tanks \/ ~w.tanks[pid].alive

set_tank_path(w, pid, path) ==
    IF NotAvailable(w, pid)
    THEN [w EXCEPT !.ret = Ret("move", pid, "tank not available")]
    ELSE [w EXCEPT !.tanks[pid].path = path,
                   !.tanks[pid].target = IF path = <<>> THEN <<>> ELSE path[Len(path)],
                   !.ret = Ret("move", pid, "ok")]

\* ------------------------------------------------------------------------
\* GameState.shoot / handle_message "shoot"
\* ------------------------------------------------------------------------
\* line 345: the time of the attempt is stored once the cooldown check passed
StampShot(t, time) == [t EXCEPT !.last_shot = time]

NewShell(pid, t, tq, tr, time) ==
    [owner_id |-> pid, q |-> t.q, r |-> t.r, target_q |-> tq, target_r |-> tr,
     speed |-> SHELL_SPEED,
     damage |-> t.shell_damage + t.upgrades["cannon"] * CANNON_SHELL_BONUS,
     created |-> time]

\* variant in which an accepted shot costs no ammo
ShootOutcomeNoDebit(pid, t, tq, tr, time) ==
    IF time - t.last_shot < FIRE_COOLDOWN
    THEN [res |-> "cooldown", tank |-> t, shell |-> <<>>]
    ELSE IF t.ammo < t.ammo_cost
    THEN [res |-> "not enough ammo", tank |-> StampShot(t, time), shell |-> <<>>]
    ELSE [res |-> "ok", tank |-> StampShot(t, time),
          shell |-> <<NewShell(pid, t, tq, tr, time)>>]

\* lines 342-364 on the shooter's tank t: [res, tank, shell], shell being <<>> or
\* the one new shell
ShootOutcome(pid, t, tq, tr, time) ==
    IF time - t.last_shot < FIRE_COOLDOWN
    THEN [res |-> "cooldown", tank |-> t, shell |-> <<>>]
    ELSE LET t1 == StampShot(t, time)
         IN IF t1.ammo < t1.ammo_cost
            THEN [res |-> "not enough ammo", tank |-> t1, shell |-> <<>>]
            ELSE IF hex_distance(Cell(t1), <<tq, tr>>) > BASE_RANGE + t1.upgrades["cannon"]
            THEN [res |-> "out of range", tank |-> t1, shell |-> <<>>]
            ELSE [res |-> "ok",
                  tank |-> [t1 EXCEPT !.ammo = t1.ammo - t1.ammo_cost],
                  shell |-> <<NewShell(pid, t1, tq, tr, time)>>]

shoot(w, pid, tq, tr) ==
    IF NotAvailable(w, pid)
    THEN [w EXCEPT !.ret = Ret("shoot", pid, "tank not available")]
    ELSE LET o == ShootOutcome(pid, w.tanks[pid], tq, tr, w.now)
         IN [w EXCEPT !.tanks[pid] = o.tank,
                      !.shells = w.shells \o o.shell,
                      !.ret = Ret("shoot", pid, o.res)]

\* ------------------------------------------------------------------------
\* GameState.upgrade / handle_message "upgrade"
\* ------------------------------------------------------------------------
\* lines 385-395: the stat change of one level of utype
ApplyUpgrade(t, utype) ==
    IF utype = "engine" THEN [t EXCEPT !.move_speed = t.move_speed + ENGINE_STEP]
    ELSE IF utype = "armor"
         THEN [t EXCEPT !.max_hp = t.max_hp + ARMOR_STEP,
                        !.hp = Min(t.hp + ARMOR_STEP, t.max_hp + ARMOR_STEP)]
    ELSE IF utype = "cannon" THEN [t EXCEPT !.shell_damage = t.shell_damage + CANNON_STEP]
    ELSE IF utype = "sensor" THEN [t EXCEPT !.vision = t.vision + 1]
    ELSE [t EXCEPT !.ammo_cost = Max(LOADER_FLOOR, t.ammo_cost - LOADER_STEP)]

\* lines 370-396 on tank t: [res, tank]
UpgradeOutcome(t, utype) ==
    IF utype \notin UpgradeTypes THEN [res |-> "unknown upgrade", tank |-> t]
    ELSE LET lvl == t.upgrades[utype]
         IN IF lvl >= UPGRADE_MAX_LVL THEN [res |-> "max level reached", tank |-> t]
            ELSE IF t.gears < LvlCosts[lvl + 1]
            THEN [res |-> "not enough gears", tank |-> t]
            ELSE [res |-> "ok",
                  tank |-> ApplyUpgrade(
                      [t EXCEPT !.gears = t.gears - LvlCosts[lvl + 1],
                                !.upgrades[utype] = lvl + 1], utype)]

upgrade(w, pid, utype) ==
    IF pid \notin DOMAIN w.tanks
    THEN [w EXCEPT !.ret = Ret("upgrade", pid, "no tank")]
    ELSE LET o == UpgradeOutcome(w.tanks[pid], utype)
         IN [w EXCEPT !.tanks[pid] = o.tank, !.ret = Ret("upgrade", pid, o.res)]

\* ------------------------------------------------------------------------
\* GameState._end_match / _reset_match / cast_vote
\* ------------------------------------------------------------------------
\* variant that leaves the score on the board
ResetTankKeepScore(t) ==
    [t EXCEPT !.hp = TANK_MAX_HP, !.max_hp = TANK_MAX_HP,
              !.fuel = START_FUEL, !.ammo = START_AMMO, !.gears = 0,
              !.move_speed = MOVE_SPEED_BASE, !.vision = FOG_RANGE,
              !.shell_damage = SHELL_DAMAGE, !.ammo_cost = AMMO_SHOOT,
              !.alive = TRUE, !.respawn_timer = 0, !.path = <<>>,
              !.upgrades = NoUpgrades,
              !.kills = 0, !.deaths = 0, !.fort_captures = 0]

ResetTank(t) ==
    [t EXCEPT !.hp = TANK_MAX_HP, !.max_hp = TANK_MAX_HP,
              !.fuel = START_FUEL, !.ammo = START_AMMO, !.gears = 0,
              !.move_speed = MOVE_SPEED_BASE, !.vision = FOG_RANGE,
              !.shell_damage = SHELL_DAMAGE, !.ammo_cost = AMMO_SHOOT,
              !.alive = TRUE, !.respawn_timer = 0, !.path = <<>>,
              !.upgrades = NoUpgrades,
              !.score = 0, !.kills = 0, !.deaths = 0, !.fort_captures = 0]

ResetFort(f) ==
    [f EXCEPT !.owner = None, !.capture_progress = 0,
              !.capturing_player = None, !.was_owned = FALSE]

reset_match(w) ==
    [w EXCEPT !.tanks = [p \in DOMAIN w.tanks |-> ResetTank(w.tanks[p])],
              !.forts = [f \in Forts |-> ResetFort(w.forts[f])],
              !.shells = <<>>,
              !.events = <<>>,
              !.match_timer = MATCH_TIME,
              !.match_over = FALSE,
              !.votes = {}]

end_match(w) == [w EXCEPT !.match_over = TRUE, !.post = POST_MATCH_TIME]

\* line 405: every tank's player has voted
AllVoted(votes, ts) == Cardinality(votes) >= Cardinality(DOMAIN ts) /\ Cardinality(DOMAIN ts) > 0

cast_vote(w, pid) ==
    IF ~w.match_over
    THEN [w EXCEPT !.ret = Ret("vote_rematch", pid, "match not over")]
    ELSE LET voted == [w EXCEPT !.votes = w.votes \cup {pid},
                                !.ret = Ret("vote_rematch", pid, "ok")]
         IN IF AllVoted(voted.votes, voted.tanks) THEN reset_match(voted) ELSE voted

\* ------------------------------------------------------------------------
\* GameState._move_tanks
\* ------------------------------------------------------------------------
\* distance covered in dt at the given speed, in 1/1000 hex
StepOf(speed, dt) == (speed * dt) \div 10

\* (d / dist) * step, rounded towards zero
Advance(d, dist, step) == Sgn(d) * ((Abs(d) * step) \div dist)

\* lines 441-452: the waypoint is within this tick's step
ArriveAtWaypoint(t) ==
    IF t.fuel < FUEL_PER_HEX
    THEN [t EXCEPT !.path = <<>>, !.target = <<>>]
    ELSE LET rest == Tail(t.path)
         IN [t EXCEPT !.fuel = t.fuel - FUEL_PER_HEX,
                      !.q = t.path[1][1] * PosScale,
                      !.r = t.path[1][2] * PosScale,
                      !.path = rest,
                      !.target = IF rest = <<>> THEN <<>> ELSE t.target]

MoveTank(t, dt) ==
    IF ~t.alive \/ t.path = <<>> THEN t
    ELSE LET dq == t.path[1][1] * PosScale - t.q
             dr == t.path[1][2] * PosScale - t.r
             d2 == dq * dq + dr * dr
             step == StepOf(t.move_speed, dt)
         IN IF d2 <= step * step
            THEN ArriveAtWaypoint(t)
            ELSE [t EXCEPT !.q = t.q + Advance(dq, ISqrt(d2), step),
                           !.r = t.r + Advance(dr, ISqrt(d2), step)]

move_tanks(w, dt) ==
    [w EXCEPT !.tanks = [p \in DOMAIN w.tanks |-> MoveTank(w.tanks[p], dt)]]

\* ------------------------------------------------------------------------
\* GameState._shell_impact
\* ------------------------------------------------------------------------
\* random.uniform(0.20, 0.60) and the killer's gear draw, as percentages
Ratios == {20, 60}
GainDraws == {0, 100}
Rnds == [fuel : Ratios, ammo : Ratios, gear : Ratios, gain : GainDraws]
Rnd0 == [fuel |-> 20, ammo |-> 20, gear |-> 20, gain |-> 0]

\* lines 501-507: what is left of a resource after the loot
LootLeft(have, ratio, floor) ==
    LET lost == Max(0, Min((have * ratio) \div 100, have - floor))
    IN Max(floor, have - lost)

\* line 503: the gears the victim loses
GearLost(t, ratio) == Max(0, Min((t.gears * ratio) \div 100, t.gears - LOOT_GEAR_FLOOR))

\* line 510: random.uniform(5, max(5, gear_lost))
GearGained(lost, draw) ==
    GEAR_GAIN_MIN + ((Max(GEAR_GAIN_MIN, lost) - GEAR_GAIN_MIN) * draw) \div 100

\* line 518: the sort key of the fort release
ReleaseKey(f, t) == Abs(FortQ(f) * PosScale - t.q) + Abs(FortR(f) * PosScale - t.r)

\* the forts owned by pid, in dict order
RECURSIVE OwnedFrom(_, _, _)
OwnedFrom(fs, pid, i) ==
    IF i >= NumForts THEN <<>>
    ELSE (IF fs[i].owner = pid THEN <<i>> ELSE <<>>) \o OwnedFrom(fs, pid, i + 1)

\* list.sort(key, reverse=True) is stable: x goes behind the keys >= its own
RECURSIVE InsertDesc(_, _, _)
InsertDesc(x, sorted, t) ==
    IF sorted = <<>> THEN <<x>>
    ELSE IF ReleaseKey(Head(sorted), t) >= ReleaseKey(x, t)
         THEN <<Head(sorted)>> \o InsertDesc(x, Tail(sorted), t)
         ELSE <<x>> \o sorted

RECURSIVE SortDesc(_, _)
SortDesc(seq, t) ==
    IF seq = <<>> THEN <<>>
    ELSE InsertDesc(seq[Len(seq)], SortDesc(SubSeq(seq, 1, Len(seq) - 1), t), t)

\* lines 514-525: the forts a killed tank gives up
FortsToRelease(fs, pid, t) ==
    LET victim_forts == OwnedFrom(fs, pid, 0)
    IN IF Len(victim_forts) > FORT_RELEASE_KEEP
       THEN LET sorted == SortDesc(victim_forts, t)
            IN {sorted[k] : k \in FORT_RELEASE_KEEP + 1 .. Len(sorted)}
       ELSE {}

ReleaseFort(f) ==
    [f EXCEPT !.owner = None, !.capture_progress = 0, !.capturing_player = None]

\* the name shown for a player id in a feed event: the id while a player with it
\* is connected, None ("?") otherwise
InfoOf(w, pid) ==
    IF \E c \in DOMAIN w.players : w.players[c].id = pid THEN pid ELSE None

\* lines 484-487: the victim's death
DieTank(t) ==
    [t EXCEPT !.hp = 0, !.alive = FALSE, !.respawn_timer = RESPAWN_TIME, !.path = <<>>]

\* lines 489-526: score, loot and fort release, when the shooter still has a tank
LootVictim(t, rnd) ==
    [t EXCEPT !.deaths = t.deaths + 1,
              !.fuel = LootLeft(t.fuel, rnd.fuel, LOOT_FUEL_FLOOR),
              !.ammo = LootLeft(t.ammo, rnd.ammo, LOOT_AMMO_FLOOR),
              !.gears = LootLeft(t.gears, rnd.gear, LOOT_GEAR_FLOOR)]

\* variant that scores the kill without counting it
RewardShooterNoKill(s, victim, rnd) ==
    [s EXCEPT !.score = s.score + KILL_SCORE,
              !.gears = Min(GEAR_CAP,
                            s.gears + GearGained(GearLost(victim, rnd.gear), rnd.gain))]

\* lines 491-492 and 510-511: the shooter's score, kill count and gears
RewardShooter(s, victim, rnd) ==
    [s EXCEPT !.score = s.score + KILL_SCORE,
              !.kills = s.kills + 1,
              !.gears = Min(GEAR_CAP,
                            s.gears + GearGained(GearLost(victim, rnd.gear), rnd.gain))]

\* lines 483-537: tank pid dies of the shell
KillTank(w, shell, pid, rnd) ==
    LET dead == DieTank(w.tanks[pid])
        killfeed == [type |-> "killfeed", player |-> InfoOf(w, shell.owner_id),
                     victim |-> InfoOf(w, pid), fort |-> -1]
    IN IF shell.owner_id \in DOMAIN w.tanks
       THEN LET release == FortsToRelease(w.forts, pid, dead)
            IN [w EXCEPT !.tanks = [p \in DOMAIN w.tanks |->
                                      IF p = pid THEN LootVictim(dead, rnd)
                                      ELSE IF p = shell.owner_id
                                      THEN RewardShooter(w.tanks[p], dead, rnd)
                                      ELSE w.tanks[p]],
                         !.forts = [f \in Forts |->
                                      IF f \in release THEN ReleaseFort(w.forts[f])
                                      ELSE w.forts[f]],
                         !.events = Append(w.events, killfeed)]
       ELSE [w EXCEPT !.tanks[pid] = dead,
                      !.events = Append(w.events, killfeed)]

\* lines 479-483: the effect of the shell on tank pid
HitTank(w, shell, pid) ==
    [w EXCEPT !.tanks[pid].hp = w.tanks[pid].hp - shell.damage]

InBlast(t, shell) == hex_distance(Cell(t), <<shell.target_q, shell.target_r>>) <= 1

\* the loop over self.tanks.items(), in insertion order (ids grow with joins)
RECURSIVE ImpactOn(_, _, _, _)
ImpactOn(w, shell, todo, rnd) ==
    IF todo = {} THEN w
    ELSE LET pid == CHOOSE p \in todo : \A o \in todo : p <= o
             t == w.tanks[pid]
             w1 == IF pid = shell.owner_id \/ ~t.alive \/ ~InBlast(t, shell) THEN w
                   ELSE IF t.hp - shell.damage <= 0 THEN KillTank(w, shell, pid, rnd)
                   ELSE HitTank(w, shell, pid)
         IN ImpactOn(w1, shell, todo \ {pid}, rnd)

shell_impact(w, shell, rnd) == ImpactOn(w, shell, DOMAIN w.tanks, rnd)

\* ------------------------------------------------------------------------
\* GameState._move_shells
\* ------------------------------------------------------------------------
\* variant without the age limit of line 465
ShellLandsNoAge(s, dt, time) ==
    LET dq == s.target_q * PosScale - s.q
        dr == s.target_r * PosScale - s.r
        step == StepOf(s.speed, dt)
    IN dq * dq + dr * dr <= step * step

\* line 465: the target is within this tick's step, or the shell is too old
ShellLands(s, dt, time) ==
    LET dq == s.target_q * PosScale - s.q
        dr == s.target_r * PosScale - s.r
        step == StepOf(s.speed, dt)
    IN dq * dq + dr * dr <= step * step \/ time - s.created > SHELL_MAX_AGE

FlyShell(s, dt) ==
    LET dq == s.target_q * PosScale - s.q
        dr == s.target_r * PosScale - s.r
        dist == ISqrt(dq * dq + dr * dr)
        step == StepOf(s.speed, dt)
    IN [s EXCEPT !.q = s.q + Advance(dq, dist, step), !.r = s.r + Advance(dr, dist, step)]

\* the loop over self.shells.items(): w carries the tanks, forts and events, kept
\* the shells still in flight
RECURSIVE ShellsFrom(_, _, _, _, _)
ShellsFrom(w, kept, i, dt, rnd) ==
    IF i > Len(w.shells) THEN [w EXCEPT !.shells = kept]
    ELSE LET s == w.shells[i]
         IN IF ShellLands(s, dt, w.now)
            THEN ShellsFrom(shell_impact(w, s, rnd), kept, i + 1, dt, rnd)
            ELSE ShellsFrom(w, Append(kept, FlyShell(s, dt)), i + 1, dt, rnd)

move_shells(w, dt, rnd) == ShellsFrom(w, <<>>, 1, dt, rnd)

\* ------------------------------------------------------------------------
\* GameState._update_captures
\* ------------------------------------------------------------------------
\* variant without the recapture multiplier
EffectiveCaptureTimeBase(f) == CAPTURE_TIME

\* line 545: CAPTURE_TIME * (RECAPTURE_MULTIPLIER if fort.was_owned else 1.0)
EffectiveCaptureTime(f) == IF f.was_owned THEN (CAPTURE_TIME * 3) \div 2 ELSE CAPTURE_TIME

\* lines 548-551: the living tanks on the fort's cell
OnFort(ts, i) ==
    {p \in DOMAIN ts : ts[p].alive /\ Round(ts[p].q) = FortQ(i) /\ Round(ts[p].r) = FortR(i)}

\* line 556: nobody here, an open contest decays
DecayEmpty(f, dt) ==
    IF f.capturing_player # None /\ f.capture_progress > 0
    THEN LET p == Max(0, f.capture_progress - dt \div 2)
         IN [f EXCEPT !.capture_progress = p,
                      !.capturing_player = IF p = 0 THEN None ELSE f.capturing_player]
    ELSE f

\* lines 566-571: the contester goes on; the fort is taken at the effective time
ContinueCapture(f, capturer, dt) ==
    LET p == f.capture_progress + dt
    IN IF p >= EffectiveCaptureTime(f)
       THEN [f EXCEPT !.capture_progress = EffectiveCaptureTime(f),
                      !.owner = capturer,
                      !.was_owned = TRUE,
                      !.capturing_player = None]
       ELSE [f EXCEPT !.capture_progress = p]

\* variant without the floor at 0
TakeOverContestUnclamped(f, capturer, dt) ==
    [f EXCEPT !.capturing_player = capturer,
              !.capture_progress = f.capture_progress - (dt * 3) \div 2]

\* lines 587-588: another player takes the contest over
TakeOverContest(f, capturer, dt) ==
    [f EXCEPT !.capturing_player = capturer,
              !.capture_progress = Max(0, f.capture_progress - (dt * 3) \div 2)]

\* variant in which the crowd adds to the progress
DecayContestedGrowing(f, dt) == [f EXCEPT !.capture_progress = f.capture_progress + dt]

\* line 591: several tanks on the cell
DecayContested(f, dt) ==
    [f EXCEPT !.capture_progress = Max(0, f.capture_progress - dt * 2)]

\* lines 553-591: one fort's step of the contest, with the tanks ts
CaptureStep(f, on_fort, dt) ==
    IF on_fort = {} THEN DecayEmpty(f, dt)
    ELSE IF Cardinality(on_fort) = 1
    THEN LET capturer == CHOOSE p \in on_fort : TRUE
         IN IF f.owner = capturer THEN f
            ELSE IF f.capturing_player = capturer THEN ContinueCapture(f, capturer, dt)
            ELSE TakeOverContest(f, capturer, dt)
    ELSE DecayContested(f, dt)

\* variant that forgets the capture count
CreditCaptureScoreOnly(t) == [t EXCEPT !.score = t.score + CAPTURE_SCORE]

\* lines 573-574: the capturer's score
CreditCapture(t) ==
    [t EXCEPT !.score = t.score + CAPTURE_SCORE, !.fort_captures = t.fort_captures + 1]

\* the loop over self.forts.values()
RECURSIVE CapturesFrom(_, _, _)
CapturesFrom(w, i, dt) ==
    IF i >= NumForts THEN w
    ELSE LET f == w.forts[i]
             g == CaptureStep(f, OnFort(w.tanks, i), dt)
             taken == g.owner # f.owner
             w1 == IF taken
                   THEN [w EXCEPT !.forts[i] = g,
                                  !.tanks[g.owner] = CreditCapture(w.tanks[g.owner]),
                                  !.events = Append(w.events,
                                      [type |-> "capturefeed", player |-> InfoOf(w, g.owner),
                                       victim |-> None, fort |-> i])]
                   ELSE [w EXCEPT !.forts[i] = g]
         IN CapturesFrom(w1, i + 1, dt)

update_captures(w, dt) == CapturesFrom(w, 0, dt)

\* ------------------------------------------------------------------------
\* GameState._generate_resources
\* ------------------------------------------------------------------------
\* variant without the cap
CreditUncapped(x, n, inc, cap) == x + n * inc

\* n credits of inc, each clamped to cap
RECURSIVE Credit(_, _, _, _)
Credit(x, n, inc, cap) == IF n = 0 THEN x ELSE Credit(Min(cap, x + inc), n - 1, inc, cap)

OwnedOfType(fs, pid, kinds) ==
    Cardinality({f \in Forts : fs[f].owner = pid /\ FortType(f) \in kinds})

GenerateFor(t, fs, pid, dt) ==
    IF ~t.alive THEN t
    ELSE [t EXCEPT
            !.fuel = Credit(t.fuel, OwnedOfType(fs, pid, {"fuel", "mixed"}),
                            FORT_FUEL_GEN * dt, FUEL_CAP),
            !.ammo = Credit(t.ammo, OwnedOfType(fs, pid, {"ammo", "mixed"}),
                            FORT_AMMO_GEN * dt, AMMO_CAP),
            !.gears = Credit(t.gears, OwnedOfType(fs, pid, {"gear", "mixed"}),
                             FORT_GEAR_GEN * dt, GEAR_CAP)]

generate_resources(w, dt) ==
    [w EXCEPT !.tanks = [p \in DOMAIN w.tanks |-> GenerateFor(w.tanks[p], w.forts, p, dt)]]

\* ------------------------------------------------------------------------
\* GameState._check_respawns
\* ------------------------------------------------------------------------
RespawnTank(t, slot) ==
    [t EXCEPT !.alive = TRUE, !.hp = t.max_hp, !.respawn_timer = 0,
              !.q = Starts[slot][1] * PosScale, !.r = Starts[slot][2] * PosScale,
              !.path = <<>>]

\* lines 615-626 for one tank; slot is random.choice(starts)
CheckRespawn(t, dt, slot) ==
    IF t.alive THEN t
    ELSE IF t.respawn_timer - dt <= 0 THEN RespawnTank(t, slot)
    ELSE [t EXCEPT !.respawn_timer = t.respawn_timer - dt]

check_respawns(w, dt, slot) ==
    [w EXCEPT !.tanks = [p \in DOMAIN w.tanks |-> CheckRespawn(w.tanks[p], dt, slot)]]

\* ------------------------------------------------------------------------
\* GameState.tick_update
\* ------------------------------------------------------------------------
\* variant that ends the match only once the timer has passed 0
CountDownLate(w, dt) ==
    IF w.match_over THEN w
    ELSE IF w.match_timer - dt < 0
    THEN end_match([w EXCEPT !.match_timer = 0])
    ELSE [w EXCEPT !.match_timer = w.match_timer - dt]

\* lines 411-415
CountDown(w, dt) ==
    IF w.match_over THEN w
    ELSE IF w.match_timer - dt <= 0
    THEN end_match([w EXCEPT !.match_timer = 0])
    ELSE [w EXCEPT !.match_timer = w.match_timer - dt]

\* lines 417-421
PostMatch(w, dt) ==
    LET w1 == [w EXCEPT !.post = w.post - dt]
    IN IF w1.post <= 0 THEN reset_match(w1) ELSE w1

\* the world after the movement and the shell phase of an active tick: what the
\* capture contest sees
BeforeCaptures(w, dt, rnd) ==
    LET w1 == move_tanks(w, dt)
    IN Then(w1, move_shells(w1, dt, rnd))

\* history: the streak of fort f after a capture phase that saw the tanks on
\* its cell; start is the world at the start of the tick, f the fort as the
\* capture phase found it
StreakStep(s, f, on, dt, start) ==
    IF Cardinality(on) # 1 THEN NoStreak
    ELSE LET p == CHOOSE x \in on : TRUE
         IN IF s.pid = p /\ f.owner # p THEN [s EXCEPT !.sum = s.sum + dt]
            ELSE IF ~f.was_owned /\ f.capturing_player = None /\ p \in DOMAIN start.tanks
            THEN [pid |-> p, sum |-> dt, first |-> dt,
                  score0 |-> start.tanks[p].score,
                  caps0 |-> start.tanks[p].fort_captures,
                  kills0 |-> start.tanks[p].kills]
            ELSE NoStreak

\* history of an active tick: w2 is the world its capture phase sees
Observe(w, w2, dt) ==
    LET on == [f \in Forts |-> OnFort(w2.tanks, f)]
    IN [w2 EXCEPT
          !.view = [active |-> TRUE, dt |-> dt, on |-> on],
          !.streak = [f \in Forts |-> StreakStep(w.streak[f], w2.forts[f], on[f], dt, w)]]

\* history of a tick that skips the active phases
Unobserved(w) == [w EXCEPT !.view = NoView, !.streak = [f \in Forts |-> NoStreak]]

\* lines 423-428
ActivePhases(w, dt, rnd, slot) ==
    LET w2 == Observe(w, BeforeCaptures(w, dt, rnd), dt)
        w3 == update_captures(w2, dt)
        w4 == generate_resources(w3, dt)
        w5 == check_respawns(w4, dt, slot)
    IN Then(w2, Then(w3, Then(w4, Then(w5, [w5 EXCEPT !.tick = w5.tick + 1]))))

tick_update(w, dt, rnd, slot) ==
    LET w0 == CountDown(w, dt)
    IN IF w0.match_over THEN Unobserved(PostMatch(w0, dt))
       ELSE ActivePhases(w0, dt, rnd, slot)

\* ------------------------------------------------------------------------
\* Tank.to_dict / GameState.get_state_for
\* ------------------------------------------------------------------------
\* lines 202-209: the fields every receiver gets (id is the player id with a
\* prefix; facing is not modelled)
PublicOf(t, pid) ==
    [player_id |-> pid, q |-> t.q, r |-> t.r, target |-> t.target,
     hp |-> t.hp, max_hp |-> t.max_hp, alive |-> t.alive, color |-> t.color,
     score |-> t.score, path |-> t.path]

\* lines 212-215: the fields only the tank's own player gets
PrivateOf(t) ==
    [fuel |-> t.fuel, ammo |-> t.ammo, gears |-> t.gears, move_speed |-> t.move_speed,
     vision |-> t.vision, ammo_cost |-> t.ammo_cost, upgrades |-> t.upgrades,
     respawn_timer |-> t.respawn_timer]

\* variant that sends the private fields to every receiver
ToDictAll(t, pid, for_player) == PublicOf(t, pid) @@ PrivateOf(t)

\* Tank.to_dict(for_player) of the tank of player pid
to_dict(t, pid, for_player) ==
    IF for_player = pid THEN PublicOf(t, pid) @@ PrivateOf(t) ELSE PublicOf(t, pid)

\* Fort.to_dict
FortDict(f, i) ==
    [id |-> i, q |-> FortQ(i), r |-> FortR(i), ftype |-> FortType(i),
     owner |-> f.owner, capture_progress |-> f.capture_progress,
     capturing_player |-> f.capturing_player, was_owned |-> f.was_owned]

\* Shell.to_dict (the shell ids are not modelled)
ShellDict(sh) ==
    [owner_id |-> sh.owner_id, q |-> sh.q, r |-> sh.r,
     target_q |-> sh.target_q, target_r |-> sh.target_r]

\* line 662: the player's name (here: that a player with the id is connected),
\* or the bare id when no connected player has it
NameOf(w, pid) ==
    IF \E c \in DOMAIN w.players : w.players[c].id = pid
    THEN <<"name", pid>> ELSE <<"id", pid>>

\* lines 661-667: one row of the leaderboard
BoardRow(w, pid) ==
    LET t == w.tanks[pid]
    IN [pid |-> pid, name |-> NameOf(w, pid), score |-> t.score, color |-> t.color,
        forts |-> Cardinality({f \in Forts : w.forts[f].owner = pid}),
        kills |-> t.kills, deaths |-> t.deaths, captures |-> t.fort_captures]

\* line 668: scores.sort(key=score, reverse=True) is stable
RECURSIVE BoardInsert(_, _)
BoardInsert(x, sorted) ==
    IF sorted = <<>> THEN <<x>>
    ELSE IF Head(sorted).score >= x.score
         THEN <<Head(sorted)>> \o BoardInsert(x, Tail(sorted))
         ELSE <<x>> \o sorted

\* the rows of the tanks in todo, in dict order (ids grow with joins), sorted
RECURSIVE BoardOf(_, _)
BoardOf(w, todo) ==
    IF todo = {} THEN <<>>
    ELSE LET last == CHOOSE p \in todo : \A o \in todo : o <= p
         IN BoardInsert(BoardRow(w, last), BoardOf(w, todo \ {last}))

\* GameState.get_state_for(player_id); the unordered collections are sets
get_state_for(w, pid) ==
    IF pid \notin DOMAIN w.tanks THEN <<>>
    ELSE LET tank == w.tanks[pid]
             cells == hex_range(Cell(tank), tank.vision)
             visible == {cells[i] : i \in 1 .. Len(cells)}
             scores == BoardOf(w, DOMAIN w.tanks)
         IN [type |-> "state",
             tick |-> w.tick,
             player_id |-> pid,
             tanks |-> [p \in {x \in DOMAIN w.tanks : x = pid \/ Cell(w.tanks[x]) \in visible}
                         |-> to_dict(w.tanks[p], p, pid)],
             forts |-> [f \in {x \in Forts : FortCell[x + 1] \in visible \/ w.forts[x].owner = pid}
                         |-> FortDict(w.forts[f], f)],
             shells |-> SelectSeq([i \in 1 .. Len(w.shells) |-> ShellDict(w.shells[i])],
                                  LAMBDA d : Cell(d) \in visible \/ d.owner_id = pid),
             visible_hexes |-> visible,
             leaderboard |-> scores,
             map_radius |-> MAP_RADIUS,
             match_timer |-> w.match_timer,
             match_over |-> w.match_over,
             post_match_timer |-> w.post,
             votes |-> [cast |-> Cardinality(w.votes), total |-> Cardinality(DOMAIN w.tanks),
                        voted_pids |-> w.votes, my_voted |-> pid \in w.votes],
             winner_name |-> IF scores # <<>> /\ w.match_over THEN scores[1].name ELSE <<>>,
             winner_color |-> IF scores # <<>> /\ w.match_over THEN scores[1].color ELSE -1]

\* ------------------------------------------------------------------------
\* game_loop
\* ------------------------------------------------------------------------
\* lines 806-810: e is the time since the previous iteration
Elapse(w, e) == [w EXCEPT !.now = w.now + e, !.ret = Ret("tick", None, "ok")]

LoopTick(w, e, rnd, slot) == tick_update(Elapse(w, e), Min(e, MAX_DT), rnd, slot)

\* lines 423-428, statement by statement: the phases of an active tick and
\* the world after phase ph of the tick c = [dt, rnd, slot, start], start being
\* the world the active phases began in
\* variant with the shells moved before the tanks
TickPhasesShellsFirst == <<"move_shells", "move_tanks", "captures", "resources", "respawns">>

\* the phases in the order of lines 423-427
TickPhases == <<"move_tanks", "move_shells", "captures", "resources", "respawns">>

RunPhase(w, c, ph) ==
    IF ph = "move_tanks" THEN move_tanks(w, c.dt)
    ELSE IF ph = "move_shells" THEN move_shells(w, c.dt, c.rnd)
    ELSE IF ph = "captures" THEN update_captures(Observe(c.start, w, c.dt), c.dt)
    ELSE IF ph = "resources" THEN generate_resources(w, c.dt)
    ELSE LET w5 == check_respawns(w, c.dt, c.slot)
         IN [w5 EXCEPT !.tick = w5.tick + 1]

PhaseAfter(ph) ==
    LET i == CHOOSE k \in 1 .. Len(TickPhases) : TickPhases[k] = ph
    IN IF i < Len(TickPhases) THEN TickPhases[i + 1] ELSE "tick"

\* line 815: the queue is cleared once the loop over it has ended
\* variant without line 815
DrainEventsKeep(w) == [w EXCEPT !.ret = Ret("drain", None, "ok")]

DrainEvents(w) == [w EXCEPT !.events = <<>>, !.ret = Ret("drain", None, "ok")]

\* the drain loop before its first iteration, after a tick that left the
\* events evs with m messages handled so far
NewFeed(evs, m) == [i |-> 0, queued |-> evs, sent |-> <<>>, m0 |-> m]
NoFeed == NewFeed(<<>>, 0)

\* no tick is under way
NoCur == [dt |-> 0, rnd |-> Rnd0, slot |-> 1, start |-> <<>>]

\* no hex function has been called on its own
NoProbe == [fn |-> "none"]

Slots == 1 .. Len(Starts)

\* random draws matter only in a tick where a shell lands or a respawn is due
RndsFor(w, e) ==
    IF \E i \in 1 .. Len(w.shells) : ShellLands(w.shells[i], Min(e, MAX_DT), w.now + e)
    THEN Rnds ELSE {Rnd0}
SlotsFor(w, e) ==
    IF \E p \in DOMAIN w.tanks :
          ~w.tanks[p].alive /\ w.tanks[p].respawn_timer - Min(e, MAX_DT) <= 0
    THEN Slots ELSE {1}

\* variant with an await between the phases of tick_update
AwaitPointsMidTick == {"tick", "drain", "captures"}

\* The points at which game_loop is suspended in an await, where the event
\* loop may run a message handler: the broadcast of the drain (line 814) and,
\* past the drain, the sends and the sleep (lines 826, 837, 841), after which
\* the next tick_update follows.  tick_update itself contains no await.
AwaitPoints == {"tick", "drain"}

\* ------------------------------------------------------------------------
\* Actions: one per message handler and per step of the game loop
\* ------------------------------------------------------------------------
Join(ws) ==
    /\ seg = 0
    /\ msgs < MaxMsgs
    /\ loop_pc \in AwaitPoints
    /\ nextPid <= MaxPid
    /\ Commit(add_player(World, ws))
    /\ msgs' = msgs + 1
    /\ UNCHANGED <<loop_pc, feed, cur, probe, iter, seg, done>>

Disconnect(ws) ==
    /\ seg = 0
    /\ msgs < MaxMsgs
    /\ loop_pc \in AwaitPoints
    /\ Commit(remove_player(World, ws))
    /\ msgs' = msgs + 1
    /\ UNCHANGED <<loop_pc, feed, cur, probe, iter, seg, done>>

\* handle_message line 745: messages of a connection without a player are dropped
Move(ws, path) ==
    /\ seg = 0
    /\ msgs < MaxMsgs
    /\ loop_pc \in AwaitPoints
    /\ ws \in DOMAIN players
    /\ Commit(set_tank_path(World, players[ws].id, path))
    /\ msgs' = msgs + 1
    /\ UNCHANGED <<loop_pc, feed, cur, probe, iter, seg, done>>

Shoot(ws, tgt) ==
    /\ seg = 0
    /\ msgs < MaxMsgs
    /\ loop_pc \in AwaitPoints
    /\ ws \in DOMAIN players
    /\ Commit(shoot(World, players[ws].id, tgt[1], tgt[2]))
    /\ msgs' = msgs + 1
    /\ UNCHANGED <<loop_pc, feed, cur, probe, iter, seg, done>>

Upgrade(ws, utype) ==
    /\ seg = 0
    /\ msgs < MaxMsgs
    /\ loop_pc \in AwaitPoints
    /\ ws \in DOMAIN players
    /\ Commit(upgrade(World, players[ws].id, utype))
    /\ msgs' = msgs + 1
    /\ UNCHANGED <<loop_pc, feed, cur, probe, iter, seg, done>>

Vote(ws) ==
    /\ seg = 0
    /\ msgs < MaxMsgs
    /\ loop_pc \in AwaitPoints
    /\ ws \in DOMAIN players
    /\ Commit(cast_vote(World, players[ws].id))
    /\ msgs' = msgs + 1
    /\ UNCHANGED <<loop_pc, feed, cur, probe, iter, seg, done>>

\* the loop goes on to the drain when the tick left events, else to the next tick
AfterTick(w) ==
    /\ loop_pc' = IF w.events = <<>> THEN "tick" ELSE "drain"
    /\ feed' = NewFeed(w.events, msgs)

\* MaxIter bounds the iterations of an active match; a match that is over is
\* ticked until its reset
Tick(e) ==
    /\ seg = 0
    /\ loop_pc = "tick"
    /\ iter < MaxIter \/ match_over
    /\ \E rnd \in RndsFor(World, e), slot \in SlotsFor(World, e) :
          LET w == LoopTick(World, e, rnd, slot)
          IN Commit(w) /\ AfterTick(w)
    /\ iter' = IF iter < MaxIter THEN iter + 1 ELSE iter
    /\ UNCHANGED <<cur, probe, msgs, seg, done>>

\* the game loop goes on past MaxIter while a shell is in flight
TickOn(e) ==
    /\ seg = 0
    /\ loop_pc = "tick"
    /\ iter >= MaxIter /\ ~match_over /\ shells # <<>>
    /\ \E rnd \in RndsFor(World, e), slot \in SlotsFor(World, e) :
          LET w == LoopTick(World, e, rnd, slot)
          IN Commit(w) /\ AfterTick(w)
    /\ UNCHANGED <<cur, probe, iter, msgs, seg, done>>

\* The tick followed statement by statement: the clock, the countdown and,
\* when the match is over, the post-match branch
TickBegin(e) ==
    /\ seg = 0
    /\ loop_pc = "tick"
    /\ iter < MaxIter \/ match_over
    /\ \E rnd \in RndsFor(World, e), slot \in SlotsFor(World, e) :
          LET dt == Min(e, MAX_DT)
              w0 == CountDown(Elapse(World, e), dt)
          IN IF w0.match_over
             THEN LET w == Unobserved(PostMatch(w0, dt))
                  IN Commit(w) /\ AfterTick(w) /\ UNCHANGED cur
             ELSE /\ Commit(w0)
                  /\ loop_pc' = TickPhases[1]
                  /\ cur' = [dt |-> dt, rnd |-> rnd, slot |-> slot, start |-> w0]
                  /\ UNCHANGED feed
    /\ iter' = IF iter < MaxIter THEN iter + 1 ELSE iter
    /\ UNCHANGED <<probe, msgs, seg, done>>

\* one phase of the tick under way
TickPhase ==
    /\ \E k \in 1 .. Len(TickPhases) : loop_pc = TickPhases[k]
    /\ LET w == RunPhase(World, cur, loop_pc)
       IN /\ Commit(w)
          /\ IF PhaseAfter(loop_pc) = "tick"
             THEN AfterTick(w) /\ cur' = NoCur
             ELSE loop_pc' = PhaseAfter(loop_pc) /\ UNCHANGED <<feed, cur>>
    /\ UNCHANGED <<probe, iter, msgs, seg, done>>

\* lines 813-815: one iteration of `for evt in game.pending_events` hands the
\* event at the loop's position to broadcast, whose sends suspend the loop;
\* when the position is past the end of the list the loop ends and the list
\* is cleared
Drain ==
    /\ loop_pc = "drain"
    /\ IF feed.i < Len(pending_events)
       THEN /\ feed' = [feed EXCEPT !.i = feed.i + 1,
                                    !.sent = Append(feed.sent, pending_events[feed.i + 1])]
            /\ Commit([World EXCEPT !.ret = Ret("broadcast", None, "ok")])
            /\ UNCHANGED loop_pc
       ELSE /\ Commit(DrainEvents(World))
            /\ loop_pc' = "tick"
            /\ feed' = [feed EXCEPT !.i = 0]
    /\ UNCHANGED <<cur, probe, iter, msgs, seg, done>>

\* ------------------------------------------------------------------------
\* The scripted opening.  A run starts from the freshly constructed server
\* and first plays a fixed sequence of messages and loop iterations (the
\* random draws being Rnd0 and slot 1); after it the clients and the clock
\* are free within the inputs of the specification.
\* A segment is [op, ws, path, tgt, u, e, n]: the message or tick, n times.
\* ------------------------------------------------------------------------
SJoin(ws) ==
    [op |-> "join", ws |-> ws, path |-> <<>>, tgt |-> <<0, 0>>, u |-> "", e |-> 0, n |-> 1]
SLeave(ws) ==
    [op |-> "leave", ws |-> ws, path |-> <<>>, tgt |-> <<0, 0>>, u |-> "", e |-> 0, n |-> 1]
SMove(ws, path) ==
    [op |-> "move", ws |-> ws, path |-> path, tgt |-> <<0, 0>>, u |-> "", e |-> 0, n |-> 1]
SShoot(ws, tgt) ==
    [op |-> "shoot", ws |-> ws, path |-> <<>>, tgt |-> tgt, u |-> "", e |-> 0, n |-> 1]
SUpgrade(ws, u) ==
    [op |-> "upgrade", ws |-> ws, path |-> <<>>, tgt |-> <<0, 0>>, u |-> u, e |-> 0, n |-> 1]
SVote(ws) ==
    [op |-> "vote", ws |-> ws, path |-> <<>>, tgt |-> <<0, 0>>, u |-> "", e |-> 0, n |-> 1]
STicks(n, e) ==
    [op |-> "tick", ws |-> 0, path |-> <<>>, tgt |-> <<0, 0>>, u |-> "", e |-> e, n |-> n]

\* the same waypoint n times
Repeat(x, n) == [i \in 1 .. n |-> x]

Play(w, c) ==
    IF c.op = "join" THEN add_player(w, c.ws)
    ELSE IF c.op = "leave" THEN remove_player(w, c.ws)
    ELSE IF c.op = "move" THEN set_tank_path(w, w.players[c.ws].id, c.path)
    ELSE IF c.op = "shoot" THEN shoot(w, w.players[c.ws].id, c.tgt[1], c.tgt[2])
    ELSE IF c.op = "upgrade" THEN upgrade(w, w.players[c.ws].id, c.u)
    ELSE IF c.op = "vote" THEN cast_vote(w, w.players[c.ws].id)
    ELSE LoopTick(w, c.e, Rnd0, 1)

Opening(script) ==
    /\ seg # 0
    /\ loop_pc = "tick"
    /\ LET w == Play(World, script[seg])
       IN /\ Commit(w)
          /\ IF script[seg].op = "tick" THEN AfterTick(w) ELSE UNCHANGED <<loop_pc, feed>>
    /\ seg' = IF done + 1 < script[seg].n THEN seg
              ELSE IF seg < Len(script) THEN seg + 1 ELSE 0
    /\ done' = IF done + 1 >= script[seg].n THEN 0 ELSE done + 1
    /\ UNCHANGED <<cur, probe, iter, msgs>>

\* in: the inputs the clients and the clock may produce after the opening
NextOf(script, in) ==
    \/ Opening(script)
    \/ \E ws \in in.conns : Join(ws)
    \/ \E ws \in in.conns : Disconnect(ws)
    \/ \E ws \in in.conns, path \in in.paths : Move(ws, path)
    \/ \E ws \in in.conns, tgt \in in.targets : Shoot(ws, tgt)
    \/ \E ws \in in.conns, u \in in.upgrades : Upgrade(ws, u)
    \/ \E ws \in in.conns : Vote(ws)
    \/ \E e \in in.elapsed : Tick(e)
    \/ Drain

\* the same with the tick followed phase by phase
NextPhased(script, in) ==
    \/ Opening(script)
    \/ \E ws \in in.conns : Join(ws)
    \/ \E ws \in in.conns : Disconnect(ws)
    \/ \E ws \in in.conns, path \in in.paths : Move(ws, path)
    \/ \E ws \in in.conns, tgt \in in.targets : Shoot(ws, tgt)
    \/ \E ws \in in.conns, u \in in.upgrades : Upgrade(ws, u)
    \/ \E ws \in in.conns : Vote(ws)
    \/ \E e \in in.elapsed : TickBegin(e)
    \/ TickPhase
    \/ Drain

\* GameState.__init__ at server start
Init ==
    /\ IsWorld(NewGame)
    /\ volley = [p \in {} |-> 0]
    /\ loop_pc = "tick"
    /\ feed = NoFeed
    /\ cur = NoCur
    /\ probe = NoProbe
    /\ iter = 0
    /\ msgs = 0
    /\ seg = 1
    /\ done = 0

\* ------------------------------------------------------------------------
\* Spec: a skirmish.  Two players join; player 1 drives from its spawn slot
\* to the cell next to player 2, spending its fuel at 20 waypoints, and takes
\* two shells of player 2.  Player 1 then fires three times at its own cell,
\* whose blast kills player 2.  The opening ends one tick before player 2's
\* respawn is due.
\* ------------------------------------------------------------------------
SkirmishOpening ==
    << SJoin(1), SJoin(2),
       SMove(1, Repeat(<<-3, 0>>, 20)), STicks(40, 100),
       SShoot(2, <<-4, 0>>), STicks(1, 1000),
       SShoot(2, <<-4, 0>>), STicks(1, 1000),
       SShoot(1, <<-3, 0>>), STicks(1, 1000),
       SShoot(1, <<-3, 0>>), STicks(1, 1000),
       SShoot(1, <<-3, 0>>), STicks(79, 100) >>

SkirmishIn ==
    [conns |-> {1, 2},
     paths |-> {<< <<-4, 0>> >>},
     targets |-> {<<-4, 0>>, <<8, 0>>},
     upgrades |-> {"armor", "turbo"},
     elapsed |-> {100, 1000}]

Next == NextOf(SkirmishOpening, SkirmishIn)
Spec == Init /\ [][Next]_vars

\* ------------------------------------------------------------------------
\* SpecCapture: a contest for forts.  Two players join on fort_0 (fuel) and
\* fort_4 (ammo) and take them; player 2 steps onto fort_8 (gear) and takes it.
\* After a minute of income player 1 steps onto the free fort_1 and player 2
\* crosses over to fort_0, which player 1 owns; player 1 fires twice at its
\* own cell, whose blast reaches player 2.  The opening ends two ticks before
\* both contests complete.
\* ------------------------------------------------------------------------
CaptureOpening ==
    << SJoin(1), SJoin(2), STicks(51, 100),
       SMove(2, << <<-3, 0>> >>), STicks(560, 100),
       SMove(1, << <<0, 5>> >>), STicks(8, 100),
       SMove(2, << <<0, 4>> >>), STicks(19, 100),
       SShoot(1, <<0, 5>>), STicks(10, 100),
       SShoot(1, <<0, 5>>), STicks(14, 100) >>

CaptureIn ==
    [conns |-> {1, 2},
     paths |-> {<< <<0, 4>> >>},
     targets |-> {<<0, 5>>},
     upgrades |-> {"armor"},
     elapsed |-> {50, 100}]

NextCapture == NextOf(CaptureOpening, CaptureIn)
SpecCapture == Init /\ [][NextCapture]_vars

\* ------------------------------------------------------------------------
\* SpecForfeit: an owner of three forts under fire.  Three players join;
\* player 2 takes fort_4, fort_8 and fort_11 and stays on fort_11.  Player 1
\* drives onto fort_11 and fires twice at its own cell; player 3 arrives on
\* the cell after the second shell.
\* ------------------------------------------------------------------------
ForfeitOpening ==
    << SJoin(1), SJoin(2), SJoin(3), STicks(51, 100),
       SMove(2, << <<-3, 0>> >>), STicks(55, 100),
       SMove(2, << <<-5, 0>> >>), STicks(58, 100),
       SMove(1, << <<-5, 0>> >>), STicks(27, 100),
       SShoot(1, <<-5, 0>>), STicks(1, 100),
       SMove(3, << <<-5, 0>> >>), STicks(8, 100),
       SShoot(1, <<-5, 0>>), STicks(17, 100) >>

ForfeitIn ==
    [conns |-> {1, 2, 3},
     paths |-> {<< <<-4, 0>> >>},
     targets |-> {<<-5, 0>>},
     upgrades |-> {"armor"},
     elapsed |-> {50, 100}]

NextForfeit == NextOf(ForfeitOpening, ForfeitIn)
SpecForfeit == Init /\ [][NextForfeit]_vars

\* ------------------------------------------------------------------------
\* SpecVolley: a tank fires its ammo away.  Two players join and take the
\* forts they spawn on (player 1 a fuel fort, player 2 an ammo fort); player
\* 1 then fires five shells at a free cell two hexes away, one a second.
\* ------------------------------------------------------------------------
VolleyOpening ==
    << SJoin(1), SJoin(2), STicks(51, 100),
       SShoot(1, <<0, 2>>), STicks(1, 1000),
       SShoot(1, <<0, 2>>), STicks(1, 1000),
       SShoot(1, <<0, 2>>), STicks(1, 1000),
       SShoot(1, <<0, 2>>), STicks(1, 1000),
       SShoot(1, <<0, 2>>), STicks(1, 1000) >>

VolleyIn ==
    [conns |-> {1, 2},
     paths |-> {<< <<0, 3>> >>},
     targets |-> {<<0, 2>>, <<-4, 2>>, <<8, 0>>},
     upgrades |-> {"loader"},
     elapsed |-> {100, 1000}]

NextVolley == NextOf(VolleyOpening, VolleyIn)
SpecVolley == Init /\ [][NextVolley]_vars

\* ------------------------------------------------------------------------
\* SpecRematch: the end of a match.  Three players join and take the forts
\* they spawn on (fort_0, fort_4 and the mixed fort_10); player 3 buys two
\* armor levels from its gear income and player 1 fires a shell that is in
\* flight when the match timer runs out, at the 6000th tick.  Player 1 votes
\* for a rematch, and the opening ends with 0.3 s left on the post-match
\* timer.
\* ------------------------------------------------------------------------
RematchOpening ==
    << SJoin(1), SJoin(2), SJoin(3), STicks(2000, 100),
       SUpgrade(3, "armor"), SUpgrade(3, "armor"), STicks(3999, 100),
       SShoot(1, <<0, 2>>), STicks(1, 100),
       SVote(1), STicks(96, 100) >>

RematchIn ==
    [conns |-> {1, 2, 3},
     paths |-> {<< <<0, 3>> >>},
     targets |-> {<<0, 2>>},
     upgrades |-> {"armor"},
     elapsed |-> {50, 100}]

NextRematch == NextOf(RematchOpening, RematchIn)
SpecRematch == Init /\ [][NextRematch]_vars

\* ------------------------------------------------------------------------
\* SpecLive: the rematch scenario under a game loop that keeps running.  The
\* game loop is never suspended for ever (line 841 sleeps 1/20 s and a
\* broadcast returns), so its iterations and its drain are weakly fair.  The
\* iterations are the steps that advance the clock or the script: OpeningTurn
\* and TickTurn are Opening and Tick reduced to their guards and to what they
\* do to seg, done and now, so they are enabled exactly when Opening and Tick
\* are, and the steps of NextRematch that change seg, done or now are exactly
\* the steps of Opening and Tick.
\* ------------------------------------------------------------------------
OpeningTurn(script) ==
    /\ seg # 0
    /\ loop_pc = "tick"
    /\ seg' = IF done + 1 < script[seg].n THEN seg
              ELSE IF seg < Len(script) THEN seg + 1 ELSE 0
    /\ done' = IF done + 1 >= script[seg].n THEN 0 ELSE done + 1

TickTurn(e) ==
    /\ seg = 0
    /\ loop_pc = "tick"
    /\ iter < MaxIter \/ match_over
    /\ now' = now + e

SpecLive ==
    /\ Init
    /\ [][NextRematch]_vars
    /\ WF_<<seg, done>>(OpeningTurn(RematchOpening))
    /\ WF_now(\E e \in RematchIn.elapsed : TickTurn(e))
    /\ WF_vars(Drain)

\* ------------------------------------------------------------------------
\* SpecHex: the hex functions called on their own.  The arguments are three
\* cells a, b, c and a radius k, drawn at the start; hex_distance is called on
\* the pairs of cells and hex_range on (a, k), each at most once, in either
\* order.  The game is the fresh server's and is left alone.
\* ------------------------------------------------------------------------
MaxCoord == 2
MaxRadius == 3

Coords == -MaxCoord .. MaxCoord
NearCoords == -1 .. 1

HexInputs ==
    { [fn |-> "none", a |-> <<aq, ar>>, b |-> <<bq, br>>, c |-> <<cq, cr>>, k |-> k,
       dist |-> <<>>, cells |-> <<>>, called |-> {}] :
        aq \in Coords, ar \in Coords, bq \in Coords, br \in Coords,
        cq \in NearCoords, cr \in NearCoords, k \in 0 .. MaxRadius }

InitHex ==
    /\ IsWorld(NewGame)
    /\ volley = [p \in {} |-> 0]
    /\ loop_pc = "tick"
    /\ feed = NoFeed
    /\ cur = NoCur
    /\ probe \in HexInputs
    /\ iter = 0
    /\ msgs = 0
    /\ seg = 0
    /\ done = 0

CallDistance ==
    /\ "hex_distance" \notin probe.called
    /\ probe' = [probe EXCEPT
                    !.fn = "hex_distance",
                    !.called = @ \cup {"hex_distance"},
                    !.dist = [ab |-> hex_distance(probe.a, probe.b),
                              ba |-> hex_distance(probe.b, probe.a),
                              bc |-> hex_distance(probe.b, probe.c),
                              ac |-> hex_distance(probe.a, probe.c),
                              aa |-> hex_distance(probe.a, probe.a)]]
    /\ UNCHANGED <<players, tanks, forts, shells, match_timer, match_over,
                   post_match_timer, rematch_votes, pending_events, tick,
                   now, nextPid, ret, view, streak, volley, loop_pc, feed, cur,
                   iter, msgs, seg, done>>

CallRange ==
    /\ "hex_range" \notin probe.called
    /\ probe' = [probe EXCEPT
                    !.fn = "hex_range",
                    !.called = @ \cup {"hex_range"},
                    !.cells = hex_range(probe.a, probe.k)]
    /\ UNCHANGED <<players, tanks, forts, shells, match_timer, match_over,
                   post_match_timer, rematch_votes, pending_events, tick,
                   now, nextPid, ret, view, streak, volley, loop_pc, feed, cur,
                   iter, msgs, seg, done>>

NextHex == CallDistance \/ CallRange
SpecHex == InitHex /\ [][NextHex]_vars

\* ------------------------------------------------------------------------
\* SpecSerial: the skirmish with the tick followed phase by phase, the
\* message handlers running wherever the game loop awaits.
\* ------------------------------------------------------------------------
SerialIn ==
    [conns |-> {1, 2},
     paths |-> {<< <<-4, 0>> >>},
     targets |-> {<<-4, 0>>},
     upgrades |-> {"armor"},
     elapsed |-> {100, 1000}]

NextSerial == NextPhased(SkirmishOpening, SerialIn)
SpecSerial == Init /\ [][NextSerial]_vars

\* ------------------------------------------------------------------------
\* SpecFlight: shells around the end of a match, under a game loop that keeps
\* running (fairness as in SpecLive) and keeps ticking while a shell is in
\* flight.  Two players join; player 2 drives to (0,3), next to player 1 on
\* (0,4).  With 0.1 s left on the match timer player 1 fires at (0,2); the
\* shell is in flight when the match ends, and the opening ends with 0.2 s
\* left on the post-match timer.
\* ------------------------------------------------------------------------
FlightOpening ==
    << SJoin(1), SJoin(2), SMove(2, << <<0, 3>> >>), STicks(5999, 100),
       SShoot(1, <<0, 2>>), STicks(98, 100) >>

FlightIn ==
    [conns |-> {1, 2},
     paths |-> {<< <<0, 3>> >>},
     targets |-> {<<0, 2>>},
     upgrades |-> {"armor"},
     elapsed |-> {100, 1000}]

FlightTurn(e) ==
    /\ seg = 0
    /\ loop_pc = "tick"
    /\ iter < MaxIter \/ match_over \/ shells # <<>>
    /\ now' = now + e

NextFlight ==
    \/ NextOf(FlightOpening, FlightIn)
    \/ \E e \in FlightIn.elapsed : TickOn(e)

SpecFlight ==
    /\ Init
    /\ [][NextFlight]_vars
    /\ WF_<<seg, done>>(OpeningTurn(FlightOpening))
    /\ WF_now(\E e \in FlightIn.elapsed : FlightTurn(e))
    /\ WF_vars(Drain)

\* ------------------------------------------------------------------------
\* SpecOrder: a tank driving into a blast, the tick followed phase by phase.
\* Two players join and take the forts they spawn on (fort_0, fort_4).
\* Player 1 drives to (-6,0) and hits player 2, on (-4,0), twice with shells
\* aimed at (-5,0); player 2, at hp 20, sets out for fort_11 on (-5,0) and is
\* at -4.5, still in cell (-4,0), when player 1 fires at its own cell.
\* ------------------------------------------------------------------------
OrderOpening ==
    << SJoin(1), SJoin(2), STicks(51, 100),
       SMove(1, << <<-6, 0>> >>), STicks(30, 100),
       SShoot(1, <<-5, 0>>), STicks(9, 100),
       SShoot(1, <<-5, 0>>), STicks(9, 100),
       SMove(2, << <<-5, 0>> >>), STicks(2, 100),
       SShoot(1, <<-6, 0>>) >>

OrderIn ==
    [conns |-> {1, 2},
     paths |-> {<< <<-4, 0>> >>},
     targets |-> {<<-6, 0>>},
     upgrades |-> {"armor"},
     elapsed |-> {50, 100}]

NextOrder == NextPhased(OrderOpening, OrderIn)
SpecOrder == Init /\ [][NextOrder]_vars

\* ------------------------------------------------------------------------
\* Properties
\* ------------------------------------------------------------------------
Commands == {"move", "shoot", "upgrade", "vote_rematch"}

\* a step in which a client command was handled
CommandStep == msgs' = msgs + 1 /\ ret'.op \in Commands

\* a step that is an active tick of the game loop
ActiveTick == tick' = tick + 1

\* the tanks present before and after a step
Staying == DOMAIN tanks \cap DOMAIN tanks'

\* C1: every command that returns an error leaves the whole simulation state
\* as it was before the command (in particular a shoot rejected for ammo or
\* range does not touch the shooter's last-shot timestamp).
C1_ErrorHasNoEffect ==
    [][CommandStep /\ ret'.res # "ok" => game' = game]_vars

\* C3: every dead tank has an empty path and a respawn countdown above 0.
C3_DeadTankIdle ==
    \A p \in Pids : ~tanks[p].alive => tanks[p].path = <<>> /\ tanks[p].respawn_timer > 0

\* a dead tank's player has just been refused a move
C3_Witness ==
    /\ ret.op = "move" /\ ret.res = "tank not available"
    /\ ret.who \in Pids
    /\ ~tanks[ret.who].alive

\* C4: a living tank with less fuel than one hex costs at the start of a tick
\* is in the same rounded cell after the tick.
C4_NoFuelNoNewCell ==
    [][ActiveTick =>
         \A p \in Staying :
            tanks[p].alive /\ tanks[p].fuel < FUEL_PER_HEX
               => Cell(tanks'[p]) = Cell(tanks[p])]_vars

\* C5: right after a shell impact that kills a tank the victim has fuel >= 15,
\* ammo >= 10 and gears >= 0, the shell's owner being connected or not.
C5_LootFloors ==
    [][ActiveTick =>
         \A p \in Staying :
            tanks[p].alive /\ ~tanks'[p].alive
               => /\ tanks'[p].fuel >= LOOT_FUEL_FLOOR
                  /\ tanks'[p].ammo >= LOOT_AMMO_FLOOR
                  /\ tanks'[p].gears >= LOOT_GEAR_FLOOR]_vars

\* C2: every tank has 0 <= hp <= max_hp, 0 <= fuel <= 120, 0 <= ammo <= 100
\* and 0 <= gears <= 99.
C2_TankRanges ==
    \A p \in Pids :
       /\ 0 <= tanks[p].hp /\ tanks[p].hp <= tanks[p].max_hp
       /\ 0 <= tanks[p].fuel /\ tanks[p].fuel <= 120 * ResScale
       /\ 0 <= tanks[p].ammo /\ tanks[p].ammo <= 100 * ResScale
       /\ 0 <= tanks[p].gears /\ tanks[p].gears <= 99 * ResScale

\* one tank sits at the fuel cap while it keeps earning fuel, another has just
\* been shot dead after an armor upgrade
C2_Witness ==
    /\ \E p \in Pids : tanks[p].fuel = 120 * ResScale /\ OwnedOfType(forts, p, {"fuel"}) > 0
    /\ \E p \in Pids : tanks[p].hp = 0 /\ tanks[p].max_hp = 120 /\ ~tanks[p].alive

\* the capture time the specification states for fort record f
StatedCaptureTime(f) == IF f.was_owned THEN 7500 ELSE 5000

\* fort f passes to a player in this step
Taken(f) == forts'[f].owner # forts[f].owner /\ forts'[f].owner # None

\* C6: a fort's owner changes to a player only in a tick whose capture phase
\* finds that player's living tank alone on the fort, the player being the
\* contester already, and the progress reaching the effective capture time
\* (5.0 s never owned, 7.5 s once owned).
C6_OwnerOnlyByCapture ==
    [][\A f \in Forts :
          Taken(f) =>
             /\ ActiveTick
             /\ view'.on[f] = {forts'[f].owner}
             /\ forts'[f].owner \in DOMAIN tanks' /\ tanks'[forts'[f].owner].alive
             /\ forts[f].capturing_player = forts'[f].owner
             /\ forts[f].capture_progress < StatedCaptureTime(forts[f])
             /\ forts[f].capture_progress + view'.dt >= StatedCaptureTime(forts[f])]_vars

\* a fort that had an owner has just been taken by another player after the
\* longer contest
C6_Witness ==
    /\ ret.op = "tick"
    /\ \E f \in Forts :
          /\ forts[f].owner # None
          /\ view.on[f] = {forts[f].owner}
          /\ streak[f].pid = None
          /\ forts[f].capture_progress = 7500

\* C7: in the tick in which a fort passes to a player its progress is reset to
\* 0 and it has no contester.
C7_ProgressResetOnCapture ==
    [][\A f \in Forts :
          Taken(f) => forts'[f].capture_progress = 0 /\ forts'[f].capturing_player = None]_vars

\* C8 as stated: a never-owned, uncontested fort found with one and the same
\* living non-owner tank alone on consecutive active ticks is that player's by
\* the end of the tick at which the summed dt of those ticks reaches 5.0 s,
\* with the player's score up by 5 and capture count up by 1.
C8_CaptureAfterFiveSeconds ==
    [][ActiveTick =>
         \A f \in Forts :
            streak'[f].pid # None /\ streak'[f].sum >= 5000
               => /\ forts'[f].owner = streak'[f].pid
                  /\ tanks'[streak'[f].pid].score = streak'[f].score0 + 5
                  /\ tanks'[streak'[f].pid].fort_captures = streak'[f].caps0 + 1]_vars

\* C8 amended: the first of those ticks only registers the contester, so the
\* fort is that player's by the end of the tick at which the summed dt of the
\* ticks after the first reaches 5.0 s; the capture count is up by 1 and the
\* score by 5 plus 10 for every kill made since the first tick began.
C8_CaptureAfterFirstTick ==
    [][ActiveTick =>
         \A f \in Forts :
            LET s == streak'[f]
            IN s.pid # None /\ s.sum - s.first >= 5000
                  => /\ forts'[f].owner = s.pid
                     /\ tanks'[s.pid].fort_captures = s.caps0 + 1
                     /\ tanks'[s.pid].score =
                           s.score0 + 5 + 10 * (tanks'[s.pid].kills - s.kills0)]_vars

\* a lone occupation has just completed the capture, its player having made a
\* kill on the way
C8_Witness ==
    \E f \in Forts :
       /\ streak[f].pid # None
       /\ streak[f].sum - streak[f].first >= 5000
       /\ forts[f].owner = streak[f].pid
       /\ streak[f].pid \in Pids
       /\ tanks[streak[f].pid].kills > streak[f].kills0
       /\ ret.op = "tick"

\* the capture phase of this step's tick found two or more living tanks on
\* fort f
Crowded(f) == ActiveTick /\ view'.dt > 0 /\ Cardinality(view'.on[f]) >= 2

\* C9 as stated: in a tick whose capture phase finds two or more living tanks
\* on a fort's cell the fort's progress does not grow and its owner does not
\* change.
C9_CrowdKeepsOwner ==
    [][\A f \in Forts :
          Crowded(f) => /\ forts'[f].capture_progress <= forts[f].capture_progress
                        /\ forts'[f].owner = forts[f].owner]_vars

\* C9 amended: in such a tick the fort's progress does not grow and no player
\* gains the fort; its owner stays, or is killed by a shell of the same tick
\* and forfeits the fort, which is then without owner.
C9_CrowdGivesNoOwner ==
    [][\A f \in Forts :
          Crowded(f) => /\ forts'[f].capture_progress <= forts[f].capture_progress
                        /\ \/ forts'[f].owner = forts[f].owner
                           \/ /\ forts'[f].owner = None
                              /\ forts[f].owner \in Staying
                              /\ tanks[forts[f].owner].alive
                              /\ ~tanks'[forts[f].owner].alive]_vars

\* two living tanks stand on a fort whose owner has just been shot dead and
\* has forfeited it
C9_Witness ==
    /\ ret.op = "tick"
    /\ \E f \in Forts :
          /\ Cardinality(view.on[f]) >= 2
          /\ forts[f].was_owned /\ forts[f].owner = None
          /\ \E p \in Pids : /\ ~tanks[p].alive
                             /\ tanks[p].respawn_timer = RESPAWN_TIME - view.dt
                             /\ Cell(tanks[p]) = FortCell[f + 1]

\* C10: every fort's capture progress lies in [0, effective capture time]: at
\* most 5.0 s while the fort was never owned, at most 7.5 s once it was.
C10_ProgressBounded ==
    \A f \in Forts :
       /\ 0 <= forts[f].capture_progress
       /\ forts[f].capture_progress <= StatedCaptureTime(forts[f])

\* a fort that had an owner stands at 7.5 s, taken again, while a never-owned
\* fort is one short tick from its 5.0 s
C10_Witness ==
    /\ \E f \in Forts : forts[f].was_owned /\ forts[f].owner # None
                        /\ forts[f].capture_progress = 7500
    /\ \E f \in Forts : ~forts[f].was_owned /\ forts[f].capture_progress = 4950

\* a step in which a message of the given type was handled, after the opening
\* or in it
Handled(op) == ret'.op = op /\ (msgs' = msgs + 1 \/ seg # 0) /\ now' = now

\* C11: a living tank's shoot that is off cooldown and not refused for range
\* succeeds as long as the shots accepted since its ammo was A number less than
\* floor(A / c), c being its per-shot cost; each success debits exactly c and
\* adds exactly one shell; once floor(A / c) shots were accepted the shoot is
\* refused for ammo and the ammo, A - floor(A / c) * c, stays as it is.
C11_AmmoBuysShots ==
    [][\A p \in DOMAIN tanks :
          /\ Handled("shoot") /\ ret'.who = p
          /\ tanks[p].alive
          /\ now - tanks[p].last_shot >= FIRE_COOLDOWN
          /\ ret'.res # "out of range"
          => LET c == tanks[p].ammo_cost
                 v == volley[p]
             IN IF v.hits < v.ammo0 \div c
                THEN /\ ret'.res = "ok"
                     /\ tanks'[p].ammo = tanks[p].ammo - c
                     /\ tanks'[p].ammo = v.ammo0 - (v.hits + 1) * c
                     /\ Len(shells') = Len(shells) + 1
                     /\ SubSeq(shells', 1, Len(shells)) = shells
                     /\ shells'[Len(shells')].owner_id = p
                ELSE /\ ret'.res = "not enough ammo"
                     /\ v.hits = v.ammo0 \div c
                     /\ tanks'[p].ammo = tanks[p].ammo
                     /\ tanks[p].ammo = v.ammo0 - v.hits * c
                     /\ shells' = shells]_vars

\* the seventh shot of a tank that started with 50 ammo at 8 a shot has just
\* been refused, six having been accepted, and its ammo is 2
C11_Witness ==
    /\ ret.op = "shoot" /\ ret.res = "not enough ammo"
    /\ ret.who \in Pids
    /\ volley[ret.who] = [ammo0 |-> START_AMMO, hits |-> 6]
    /\ tanks[ret.who].ammo_cost = AMMO_SHOOT
    /\ tanks[ret.who].ammo = 2 * ResScale

\* the ids of the connected players
Connected == {players[c].id : c \in DOMAIN players}

\* a step that takes the match from OVER back to ACTIVE
Restart == match_over /\ ~match_over'

\* C12: while the match is over, there is no moment at which players are
\* connected and every one of them is in the rematch-vote set: the match has
\* reset as soon as that became true, by a vote or by a disconnect.
C12_NoQuorumWhileOver ==
    ~(match_over /\ Connected # {} /\ Connected \subseteq rematch_votes)

\* C13: the match goes from OVER to ACTIVE only in a tick in which the
\* post-match timer expires, or at a vote with which every connected player
\* has voted.
C13_RestartNeedsQuorum ==
    [][Restart =>
         \/ /\ ret'.op = "tick"
            /\ post_match_timer - Min(now' - now, MAX_DT) <= 0
         \/ /\ Handled("vote_rematch")
            /\ Connected \subseteq rematch_votes \cup {ret'.who}]_vars

\* the fields of a tank that a freshly joined tank has, whatever its slot
Defaults(t) ==
    [hp |-> t.hp, max_hp |-> t.max_hp, fuel |-> t.fuel, ammo |-> t.ammo,
     gears |-> t.gears, move_speed |-> t.move_speed, vision |-> t.vision,
     shell_damage |-> t.shell_damage, ammo_cost |-> t.ammo_cost,
     upgrades |-> t.upgrades, alive |-> t.alive, respawn_timer |-> t.respawn_timer,
     path |-> t.path, score |-> t.score, kills |-> t.kills, deaths |-> t.deaths,
     fort_captures |-> t.fort_captures]

\* C14: right after a match reset every tank equals a freshly joined tank in
\* hp, max hp, fuel, ammo, gears, move speed, vision, shell damage, ammo cost,
\* upgrade levels, alive flag, respawn countdown, path and the four counters;
\* every fort has no owner, no contester, progress 0 and was never owned;
\* there are no shells, no votes, the match is active with the full match
\* time, and the connected players are those of before.
C14_ResetRestoresDefaults ==
    [][Restart =>
         /\ \A p \in DOMAIN tanks' : Defaults(tanks'[p]) = Defaults(NewTank(0, 0, 0))
         /\ \A f \in Forts : forts'[f] = NewFort
         /\ shells' = <<>>
         /\ rematch_votes' = {}
         /\ ~match_over'
         /\ match_timer' = MATCH_TIME
         /\ players' = players]_vars

\* the last connected player's vote has just restarted a match that had run
\* its full time
C14_Witness ==
    /\ ret.op = "vote_rematch" /\ ret.res = "ok"
    /\ ~match_over /\ match_timer = MATCH_TIME /\ rematch_votes = {}
    /\ tick >= 5999
    /\ Cardinality(Pids) = 3
    /\ \E p \in Pids : tanks[p].last_shot > StartTime

\* C15: tanks and connected players correspond one to one: the tanks are
\* exactly those of the connected players' ids, no two connections share an
\* id, and there are at most 4 tanks.
C15_OneTankPerPlayer ==
    /\ DOMAIN tanks = Connected
    /\ \A c, d \in DOMAIN players : players[c].id = players[d].id => c = d
    /\ Cardinality(DOMAIN tanks) <= MAX_PLAYERS

\* the fields of a tank the claim calls private
Secret == {"fuel", "ammo", "gears", "upgrades", "respawn_timer", "vision", "ammo_cost"}

\* world w with the private fields of every tank but pid's set to fixed values
Scrub(w, pid) ==
    [w EXCEPT !.tanks =
        [p \in DOMAIN w.tanks |->
           IF p = pid THEN w.tanks[p]
           ELSE [w.tanks[p] EXCEPT !.fuel = 0, !.ammo = 0, !.gears = 0,
                                   !.upgrades = NoUpgrades, !.respawn_timer = 0,
                                   !.vision = 0, !.ammo_cost = 0]]]

\* C16: the snapshot for player P is the same in any two states that differ
\* only in the fuel, ammo, gears, upgrade levels, respawn countdown, vision or
\* per-shot cost of other players' tanks (it equals the snapshot of the state
\* with those fields blanked), and in it only P's own tank record has any of
\* those fields.
C16_SnapshotHidesPrivate ==
    \A p \in Pids :
       LET snap == get_state_for(World, p)
       IN /\ snap = get_state_for(Scrub(World, p), p)
          /\ \A o \in DOMAIN snap.tanks \ {p} : DOMAIN snap.tanks[o] \cap Secret = {}
          /\ Secret \subseteq DOMAIN snap.tanks[p]

\* a player sees another player's tank, which has gears, an upgrade and more
\* ammo than it started with
C16_Witness ==
    \E p, o \in Pids :
       /\ o # p
       /\ o \in DOMAIN get_state_for(World, p).tanks
       /\ tanks[o].gears > 0 /\ tanks[o].upgrades["armor"] > 0 /\ tanks[o].ammo > START_AMMO
       /\ Scrub(World, p) # World

\* a tick has run some of its phases and not yet the last
MidTick == \E k \in 1 .. Len(TickPhases) : loop_pc = TickPhases[k]

\* C17: commands and ticks are serialized: a message or disconnect is never
\* handled while a tick has run only part of its phases, and the phases of a
\* tick, run one by one, leave exactly the state that tick_update as a whole
\* makes of the state the tick began in.
C17_CommandsAndTicksSerialized ==
    [][/\ msgs' = msgs + 1 => ~MidTick /\ loop_pc' = loop_pc
       /\ loop_pc = TickPhases[Len(TickPhases)]
             => Commit(ActivePhases(cur.start, cur.dt, cur.rnd, cur.slot))]_vars

\* a move was accepted while the game loop was suspended in the drain of a
\* tick that ran phase by phase and left an event
C17_Witness ==
    /\ loop_pc = "drain"
    /\ ret.op = "move" /\ ret.res = "ok"
    /\ msgs > feed.m0
    /\ iter > 0
    /\ feed.queued # <<>>

\* C18: the events a tick queues are each broadcast exactly once, in order, in
\* the drain after that tick, whatever is handled while the drain awaits: the
\* queue is not altered during the drain, each broadcast sends the next queued
\* event, the drain ends having sent exactly what the tick queued, and the
\* queue is empty whenever the game loop is about to tick.
C18_FeedDrainedOnce ==
    [][/\ loop_pc' = "tick" => pending_events' = <<>>
       /\ loop_pc = "drain" => pending_events = feed.queued
       /\ ret'.op = "broadcast" /\ ret' # ret
             => /\ loop_pc = "drain"
                /\ feed'.sent = Append(feed.sent, feed.queued[Len(feed.sent) + 1])
       /\ loop_pc = "drain" /\ loop_pc' = "tick" => feed.sent = feed.queued
       /\ loop_pc = "drain" /\ ret'.op # "broadcast" => feed'.sent = feed.sent]_vars

\* a drain has ended having sent the events of its tick, with a command
\* handled while it was under way
C18_Witness ==
    /\ loop_pc = "tick"
    /\ ret.op = "drain"
    /\ feed.queued # <<>>
    /\ feed.sent = feed.queued
    /\ msgs > feed.m0
    /\ seg = 0

\* the dt of the tick a step makes
StepDt == Min(now' - now, MAX_DT)

\* C19: under a fair game loop with dt > 0 the match lifecycle progresses.
\* An active match ends in exactly the tick that takes the match timer to 0 or
\* below, and in no other step; that tick starts the post-match timer at its
\* full value less the tick's dt; a match that is over has a positive
\* post-match timer, every tick takes dt off it and the tick that takes it to
\* 0 or below restarts the match; every restart sets the match timer to the
\* full duration; a match that is over is eventually active again with the
\* full duration, and the first match of a server, ticked by the scripted
\* iterations, is eventually over.
C19_LifecycleProgresses ==
    /\ [][/\ ~match_over /\ now' # now
              => /\ match_over' <=> match_timer - StepDt <= 0
                 /\ match_timer' = Max(match_timer - StepDt, 0)
                 /\ match_over' => post_match_timer' = POST_MATCH_TIME - StepDt
          /\ ~match_over /\ now' = now => ~match_over'
          /\ match_over /\ now' # now
              => IF post_match_timer - StepDt <= 0
                 THEN ~match_over'
                 ELSE match_over' /\ post_match_timer' = post_match_timer - StepDt
          /\ match_over /\ ~match_over' => match_timer' = MATCH_TIME]_vars
    /\ [](match_over => post_match_timer > 0 /\ post_match_timer < POST_MATCH_TIME)
    /\ match_over ~> (~match_over /\ match_timer = MATCH_TIME)
    /\ (~match_over /\ seg # 0) ~> match_over

\* a match that ended when its timer ran out was restarted by the tick that
\* took the post-match timer to 0
C19_Witness ==
    /\ ~match_over
    /\ match_timer = MATCH_TIME
    /\ post_match_timer <= 0
    /\ ret.op = "tick"
    /\ tick >= 5999
    /\ seg = 0

\* the cells whose coordinates are within k + 1 of those of cell a: every
\* cell at hex distance at most k from a is among them
Around(a, k) ==
    { <<q, r>> : q \in a[1] - k - 1 .. a[1] + k + 1, r \in a[2] - k - 1 .. a[2] + k + 1 }

\* C20: hex_distance is a metric on cells: it is non-negative, symmetric, zero
\* exactly for equal cells, and obeys the triangle inequality; and
\* hex_range(a, k), k >= 0, lists 1 + 3k(k+1) cells, no cell twice, which are
\* exactly the cells at hex distance at most k from a.
C20_HexMetricAndRange ==
    /\ "hex_distance" \in probe.called
          => /\ probe.dist.ab >= 0
             /\ probe.dist.ab = probe.dist.ba
             /\ probe.dist.ab = 0 <=> probe.a = probe.b
             /\ probe.dist.aa = 0
             /\ probe.dist.ac <= probe.dist.ab + probe.dist.bc
    /\ "hex_range" \in probe.called
          => /\ Len(probe.cells) = 1 + 3 * probe.k * (probe.k + 1)
             /\ \A i, j \in 1 .. Len(probe.cells) : probe.cells[i] = probe.cells[j] => i = j
             /\ {probe.cells[i] : i \in 1 .. Len(probe.cells)}
                   = {x \in Around(probe.a, probe.k) : hex_distance(probe.a, x) <= probe.k}

\* both functions were called: on three distinct cells with a and c two cells
\* apart through b, and hex_range on a centre off the origin with the largest
\* radius, giving 37 cells
C20_Witness ==
    /\ probe.called = {"hex_distance", "hex_range"}
    /\ probe.dist.ab = 1 /\ probe.dist.bc = 1 /\ probe.dist.ac = 2
    /\ probe.a # <<0, 0>>
    /\ probe.k = MaxRadius
    /\ Len(probe.cells) = 37

\* the forts player p owns
OwnedBy(fs, p) == {f \in Forts : fs[f].owner = p}

\* C21: when a tank that owns more than 2 forts is killed, the forts it still
\* owns after the tick are at least as close to its death position (by
\* |dq| + |dr|) as every fort of its that the tick left neutral, and unless
\* another tank took one of them in the same tick it keeps exactly 2.
C21_ReleasesFarthest ==
    [][ActiveTick =>
         \A p \in Staying :
            /\ tanks[p].alive /\ ~tanks'[p].alive
            /\ Cardinality(OwnedBy(forts, p)) > FORT_RELEASE_KEEP
            => LET kept == OwnedBy(forts, p) \cap OwnedBy(forts', p)
                   lost == OwnedBy(forts, p) \cap OwnedBy(forts', None)
               IN /\ kept \cup lost = OwnedBy(forts, p)
                       => Cardinality(kept) = FORT_RELEASE_KEEP
                  /\ \A k \in kept, l \in lost :
                        ReleaseKey(k, tanks'[p]) <= ReleaseKey(l, tanks'[p])]_vars

\* the tanks a step takes from alive to dead
Dying == {p \in Staying : tanks[p].alive /\ ~tanks'[p].alive}

\* C22: a tank goes from alive to dead only in an active tick, and that tick
\* leaves it with hp 0, an empty path, the respawn countdown of 8 s less the
\* tick's dt, and one death more; the kills gained in the tick are at most the
\* deaths of the tick, each worth 10 score to the tank that gains it.
C22_DeathRuleInFull ==
    [][/\ Dying # {} => ActiveTick
       /\ \A p \in Dying :
             /\ tanks'[p].hp = 0
             /\ tanks'[p].path = <<>>
             /\ tanks'[p].respawn_timer = RESPAWN_TIME - StepDt
             /\ tanks'[p].deaths = tanks[p].deaths + 1
       /\ ActiveTick
             => \A s \in Staying :
                   /\ tanks'[s].kills - tanks[s].kills \in 0 .. Cardinality(Dying)
                   /\ tanks'[s].score - tanks[s].score
                         = KILL_SCORE * (tanks'[s].kills - tanks[s].kills)
                           + CAPTURE_SCORE * (tanks'[s].fort_captures - tanks[s].fort_captures)]_vars

\* the tanks the tick under way has killed
KilledInTick == {p \in Pids : p \in DOMAIN cur.start.tanks /\ cur.start.tanks[p].alive /\ ~tanks[p].alive}

\* the shells of the tick under way that land in it
Landing == {i \in 1 .. Len(cur.start.shells) : ShellLands(cur.start.shells[i], cur.dt, now)}

\* C23: the phases of an active tick take effect in the order movement, shell
\* impact, capture contest, resources, respawn.  The impact finds the tanks
\* where the tick's movement put them: a living tank that the movement takes
\* into the blast of a landing shell of another player is hit (or dead) after
\* the shell phase, and one outside every landing blast keeps its hp.  A tank
\* killed in the tick is not among the occupants the capture contest counts on
\* any fort, and the resource phase leaves its fuel, ammo and gears alone.
C23_PhaseOrder ==
    [][/\ loop_pc = "move_tanks" => loop_pc' = "move_shells"
       /\ loop_pc = "move_shells" => loop_pc' = "captures"
       /\ loop_pc = "captures" => loop_pc' = "resources"
       /\ loop_pc = "resources" => loop_pc' = "respawns"
       /\ loop_pc = "respawns" => loop_pc' \in AwaitPoints
       /\ loop_pc' = "move_tanks" => loop_pc = "tick"
       /\ loop_pc = "move_shells"
            => \A p \in DOMAIN cur.start.tanks :
                  LET t0 == cur.start.tanks[p]
                      moved == MoveTank(t0, cur.dt)
                      blasts == {i \in Landing : cur.start.shells[i].owner_id # p
                                                   /\ InBlast(moved, cur.start.shells[i])}
                  IN t0.alive =>
                       /\ \A i \in blasts :
                             \/ ~tanks'[p].alive
                             \/ tanks'[p].hp <= t0.hp - cur.start.shells[i].damage
                       /\ blasts = {} => tanks'[p].hp = t0.hp /\ tanks'[p].alive
       /\ loop_pc = "captures"
            => \A p \in KilledInTick : \A f \in Forts : p \notin view'.on[f]
       /\ loop_pc = "resources"
            => \A p \in KilledInTick :
                  /\ tanks'[p].fuel = tanks[p].fuel
                  /\ tanks'[p].ammo = tanks[p].ammo
                  /\ tanks'[p].gears = tanks[p].gears]_vars

\* the resource phase of a tick is done: a tank that was outside the blast of
\* a shell when the tick began and drove into it was killed by that shell; it
\* lies on the cell of a fort that is not its own, where the capture contest
\* counted nobody, and it owns an ammo fort
C23_Witness ==
    /\ loop_pc = "respawns"
    /\ \E p \in KilledInTick, i \in Landing, f \in Forts :
          /\ ~InBlast(cur.start.tanks[p], cur.start.shells[i])
          /\ InBlast(tanks[p], cur.start.shells[i])
          /\ shells = <<>>
          /\ Cell(tanks[p]) = FortCell[f + 1]
          /\ forts[f].owner # p
          /\ view.on[f] = {}
          /\ OwnedOfType(forts, p, {"ammo", "mixed"}) > 0
          /\ tanks[p].ammo <= cur.start.tanks[p].ammo

\* the shells in flight that the tick a step makes lands
LandingNow == {i \in 1 .. Len(shells) : ShellLands(shells[i], StepDt, now')}

\* the damage the shells of is do to a tank of player p
RECURSIVE DamageOf(_, _)
DamageOf(is, p) ==
    IF is = {} THEN 0
    ELSE LET i == CHOOSE x \in is : TRUE
         IN (IF shells[i].owner_id = p THEN 0 ELSE shells[i].damage) + DamageOf(is \ {i}, p)

\* shell s is in flight in the shell list shs
InFlight(s, shs) ==
    \E j \in 1 .. Len(shs) : shs[j].owner_id = s.owner_id /\ shs[j].created = s.created

\* C24: every shell is removed under a fair game loop, and resolves at most
\* once.  A shell comes into flight only by an accepted shoot; an active tick
\* removes exactly the shells that land in it, leaves no shell older than the
\* maximum age, and takes from a living tank at most the damage of the shells
\* that landed; a restart of the match removes every shell; and whenever
\* shells are in flight (the match active or over, their owners connected or
\* not) there are eventually none.
C24_ShellsResolveOnce ==
    /\ [][/\ Len(shells') > Len(shells)
             => /\ ret'.op = "shoot" /\ ret'.res = "ok"
                /\ Len(shells') = Len(shells) + 1
                /\ \A i \in 1 .. Len(shells) : shells'[i] = shells[i]
          /\ ActiveTick
             => /\ Len(shells') = Len(shells) - Cardinality(LandingNow)
                /\ \A i \in LandingNow : ~InFlight(shells[i], shells')
                /\ \A i \in 1 .. Len(shells) \ LandingNow : InFlight(shells[i], shells')
                /\ \A j \in 1 .. Len(shells') : now' - shells'[j].created <= SHELL_MAX_AGE
                /\ \A p \in Staying :
                      tanks[p].alive /\ tanks'[p].alive
                         => tanks'[p].hp >= tanks[p].hp - DamageOf(LandingNow, p)
          /\ Restart => shells' = <<>>
          /\ now' # now /\ ~ActiveTick /\ ~Restart => shells' = shells]_vars
    /\ (shells # <<>>) ~> (shells = <<>>)

\* after a restart a shell fired by a player who then disconnected has landed
\* next to the other player's tank and taken 40 hp from it, and no shell is in
\* flight
C24_Witness ==
    /\ shells = <<>>
    /\ ~match_over
    /\ ret.op = "tick"
    /\ tick > 5999
    /\ \E p \in Pids :
          /\ DOMAIN tanks = {p}
          /\ tanks[p].alive
          /\ tanks[p].hp = TANK_MAX_HP - SHELL_DAMAGE

\* the index of the spawn slot add_player gave the player of connection c:
\* the slot and the colour are both taken at index len(self.players), which
\* is below MAX_PLAYERS and so below the number of colours and of slots
SlotOf(c) == (players[c].color % Len(Starts)) + 1

\* C25: players connected at the same time have pairwise distinct colours and
\* were given pairwise distinct spawn slots.
C25_DistinctColoursAndSlots ==
    \A c, d \in DOMAIN players :
       c # d => /\ players[c].color # players[d].color
                /\ Starts[SlotOf(c)] # Starts[SlotOf(d)]

\* ------------------------------------------------------------------------
\* SpecArmory: a wealthy tank is destroyed.  Two players join and take their
\* forts; player 2 steps onto fort_8 (gear), takes it and collects its income
\* for over two minutes.  Player 1 steps onto fort_1, player 2 crosses over to
\* fort_0, and player 1 fires three times at its own cell: the third shell
\* destroys player 2, who keeps part of its gears.  The opening ends two ticks
\* after the death, six seconds before the respawn.
\* ------------------------------------------------------------------------
ArmoryOpening ==
    << SJoin(1), SJoin(2), STicks(51, 100),
       SMove(2, << <<-3, 0>> >>), STicks(1400, 100),
       SMove(1, << <<0, 5>> >>), STicks(8, 100),
       SMove(2, << <<0, 4>> >>), STicks(19, 100),
       SShoot(1, <<0, 5>>), STicks(10, 100),
       SShoot(1, <<0, 5>>), STicks(10, 100),
       SShoot(1, <<0, 5>>), STicks(20, 100) >>

ArmoryIn ==
    [conns |-> {1, 2},
     paths |-> {<< <<0, 4>> >>},
     targets |-> {<<0, 5>>},
     upgrades |-> {"armor"},
     elapsed |-> {100, 1000}]

NextArmory == NextOf(ArmoryOpening, ArmoryIn)
SpecArmory == Init /\ [][NextArmory]_vars

\* C26: a tank that is not alive has hp 0.
C26_DeadTankHasNoHp ==
    \A p \in Pids : ~tanks[p].alive => tanks[p].hp = 0

\* C27: a tick that kills a tank leaves the victim with no more fuel, ammo and
\* gears than it had before the tick.
C27_DeathNeverEnriches ==
    [][\A p \in Dying : /\ tanks'[p].fuel <= tanks[p].fuel
                        /\ tanks'[p].ammo <= tanks[p].ammo
                        /\ tanks'[p].gears <= tanks[p].gears]_vars

\* ------------------------------------------------------------------------
\* SpecScore: a match with a kill played to its end.  The skirmish is fought
\* in the first seconds of the match: player 1 takes fort_0 and fort_8 and
\* destroys player 2, who respawns and takes fort_0.  The match then runs out
\* its ten minutes; player 1 votes for a rematch and the opening ends four
\* ticks before the post-match countdown runs out.
\* ------------------------------------------------------------------------
ScoreOpening ==
    << SJoin(1), SJoin(2),
       SMove(1, Repeat(<<-3, 0>>, 20)), STicks(40, 100),
       SShoot(2, <<-4, 0>>), STicks(1, 1000),
       SShoot(2, <<-4, 0>>), STicks(1, 1000),
       SShoot(1, <<-3, 0>>), STicks(1, 1000),
       SShoot(1, <<-3, 0>>), STicks(1, 1000),
       SShoot(1, <<-3, 0>>), STicks(5955, 100),
       SVote(1), STicks(96, 100) >>

ScoreIn ==
    [conns |-> {1, 2},
     paths |-> {<< <<-4, 0>> >>},
     targets |-> {<<-4, 0>>},
     upgrades |-> {"armor"},
     elapsed |-> {50, 100}]

NextScore == NextOf(ScoreOpening, ScoreIn)
SpecScore == Init /\ [][NextScore]_vars

\* the tanks whose score, kills or captures a step lowers
Losing ==
    {p \in Staying : \/ tanks'[p].score < tanks[p].score
                     \/ tanks'[p].kills < tanks[p].kills
                     \/ tanks'[p].fort_captures < tanks[p].fort_captures}

\* C28: every tank's score is 10 times its kills plus 5 times its fort
\* captures; a step lowers the score, the kills or the captures of a tank only
\* when it restarts the match, and then all three are 0.
C28_ScoreIsKillsAndCaptures ==
    /\ [](\A p \in Pids : tanks[p].score = 10 * tanks[p].kills + 5 * tanks[p].fort_captures)
    /\ [][\A p \in Losing : /\ Restart
                            /\ tanks'[p].score = 0
                            /\ tanks'[p].kills = 0
                            /\ tanks'[p].fort_captures = 0]_vars

C28_Witness ==
    /\ seg = 0
    /\ match_over
    /\ Connected # {} /\ Connected \subseteq rematch_votes
    /\ \E p \in Pids : tanks[p].kills >= 1 /\ tanks[p].fort_captures >= 1 /\ tanks[p].score >= 15

\* C29: the owner and the contester of every fort are each None or the id of
\* a tank that exists, and a fort that has a contester is not owned by it.
C29_FortRolesAreTanks ==
    \A f \in Forts :
       /\ forts[f].owner \in {None} \cup Pids
       /\ forts[f].capturing_player \in {None} \cup Pids
       /\ forts[f].capturing_player # None => forts[f].capturing_player # forts[f].owner

C29_Witness ==
    /\ ret.op = "disconnect"
    /\ ret.who # None
    /\ ret.who \notin Pids
    /\ \E f \in Forts : /\ forts[f].was_owned
                        /\ forts[f].owner = None
                        /\ forts[f].capturing_player \in Pids

====
